---- MODULE Spec2Model ----
(***************************************************************************)
(* The requirement graph of the tender project manager                      *)
(* (src/core/graph.py) and the node deletion of incremental reprocessing    *)
(* (src/core/extractor.py), as a state machine over the public operations   *)
(* of RequirementGraph.                                                     *)
(***************************************************************************)
EXTENDS Integers, Sequences, FiniteSets, TLC

(***************************************************************************)
(* Bounds of the model.                                                     *)
(***************************************************************************)
MaxNodes == 3
MaxApiNodes == 2
MaxEdges == 2
MaxStatNodes == 10

\* The priority specification: one node and up to three nodes depending on it.
MaxPrioNodes == 4

MaxPrioEdges == 3

\* The node ids of the status specification, of the specifications of the
\* whole interface, and of the statistics specification.
NodeIds == 1..MaxNodes
ApiNodeIds == 1..MaxApiNodes
StatNodeIds == 1..MaxStatNodes

PrioNodeIds == 1..MaxPrioNodes

\* The critical path specification: more nodes than get_critical_path
\* returns, and edges enough for a diamond or a cycle through four nodes.
MaxPathNodes == 11

MaxPathEdges == 4

PathNodeIds == 1..MaxPathNodes

\* The placeholder specification: placeholders and real documents.
MaxResolveNodes == 4

ResolveNodeIds == 1..MaxResolveNodes

\* The store specification: the edges of the graph that is saved.
MaxStoreEdges == 1

\* The worker specification: the calls of start_processing.
MaxJobs == 3

(***************************************************************************)
(* Enumerations: member names, and the string values to_dict writes.        *)
(***************************************************************************)
CompletionStatus == {"NOT_STARTED", "IN_PROGRESS", "COMPLETED", "NOT_APPLICABLE", "BLOCKED"}

StatusValue(s) ==
    CASE s = "NOT_STARTED" -> "not_started"
      [] s = "IN_PROGRESS" -> "in_progress"
      [] s = "COMPLETED" -> "completed"
      [] s = "NOT_APPLICABLE" -> "not_applicable"
      [] s = "BLOCKED" -> "blocked"

StatusFromValue(v) == CHOOSE s \in CompletionStatus : StatusValue(s) = v

NodeType == {"DOCUMENT", "REQUIREMENT", "CONDITION", "CHECKBOX", "SIGNATURE",
             "FIELD", "ATTACHMENT", "DEADLINE"}

NodeTypeValue(t) ==
    CASE t = "DOCUMENT" -> "document"
      [] t = "REQUIREMENT" -> "requirement"
      [] t = "CONDITION" -> "condition"
      [] t = "CHECKBOX" -> "checkbox"
      [] t = "SIGNATURE" -> "signature"
      [] t = "FIELD" -> "field"
      [] t = "ATTACHMENT" -> "attachment"
      [] t = "DEADLINE" -> "deadline"

NodeTypeFromValue(v) == CHOOSE t \in NodeType : NodeTypeValue(t) = v

EdgeType == {"REQUIRES", "REQUIRED_BY", "CONDITIONAL_ON", "TRIGGERS", "PART_OF",
             "REFERENCES", "MUTUALLY_EXCLUSIVE", "DEPENDS_ON"}

EdgeTypeValue(t) ==
    CASE t = "REQUIRES" -> "requires"
      [] t = "REQUIRED_BY" -> "required_by"
      [] t = "CONDITIONAL_ON" -> "conditional_on"
      [] t = "TRIGGERS" -> "triggers"
      [] t = "PART_OF" -> "part_of"
      [] t = "REFERENCES" -> "references"
      [] t = "MUTUALLY_EXCLUSIVE" -> "mutually_exclusive"
      [] t = "DEPENDS_ON" -> "depends_on"

EdgeTypeFromValue(v) == CHOOSE t \in EdgeType : EdgeTypeValue(t) = v

\* The edge types get_dependencies and get_dependents follow.
DependencyTypes == {"DEPENDS_ON", "REQUIRES", "CONDITIONAL_ON"}

(***************************************************************************)
(* State.  nodes: id -> Node (a function on the present ids).  edges: the   *)
(* edge dict in insertion order; an edge's id is its position, since ids    *)
(* are fresh uuids and no edge is ever removed.  adjacency and              *)
(* reverse_adjacency: id -> list of edge ids.  document_hashes: the record  *)
(* of IncrementalExtractor.  last: the last call and what it returned.      *)
(* extraction: the latest call of RequirementExtractor.extract (its         *)
(* document, what the LLM client did at each request, and the result).      *)
(* batch: the latest batch run (process_directory or run_extraction).       *)
(* store: the rows of the tables "nodes" and "edges" of the database, by    *)
(* id.                                                                      *)
(* jobs: the rows of the table "processing_jobs" of one project in the      *)
(* order they were inserted, each with the position of the background       *)
(* thread that start_processing started for it and the graph that thread    *)
(* holds.                                                                   *)
(***************************************************************************)
VARIABLES nodes, edges, adjacency, reverse_adjacency, document_hashes, last, extraction,
          batch, store, jobs

vars == <<nodes, edges, adjacency, reverse_adjacency, document_hashes, last, extraction,
          batch, store, jobs>>

\* A graph value, as the four fields of RequirementGraph.
Graph(n, e, a, r) == [nodes |-> n, edges |-> e, adjacency |-> a, reverse_adjacency |-> r]

G == Graph(nodes, edges, adjacency, reverse_adjacency)

\* Node(...) with the dataclass defaults for the fields not given.
Node(type, status, source_document, source_text, tags, metadata) ==
    [type |-> type, status |-> status, source_document |-> source_document,
     source_text |-> source_text, tags |-> tags, metadata |-> metadata]

Edge(source_id, target_id, type) ==
    [source_id |-> source_id, target_id |-> target_id, type |-> type]

EmptyMap == [k \in {} |-> 0]

\* dict.get(key, []) on an index.
IndexGet(idx, id) == IF id \in DOMAIN idx THEN idx[id] ELSE <<>>

\* d[key] = value on a dict modelled as a function.
DictSet(d, key, value) == [k \in DOMAIN d \cup {key} |-> IF k = key THEN value ELSE d[k]]

\* del d[key].
DictDel(d, key) == [k \in DOMAIN d \ {key} |-> d[k]]

\* The elements of a list.
Range(s) == {s[i] : i \in 1..Len(s)}

(***************************************************************************)
(* graph.nodes.values() lists the nodes in the order they were put into the *)
(* dict.  The specifications that iterate over the dict give every new node *)
(* an id above the ids present, so that order is the ascending order of the *)
(* ids.                                                                     *)
(***************************************************************************)
RECURSIVE Ascending(_)
Ascending(S) ==
    IF S = {} THEN <<>>
    ELSE LET m == CHOOSE x \in S : \A y \in S : x <= y
         IN  <<m>> \o Ascending(S \ {m})

\* list(graph.nodes.values()), as ids
NodeOrder(g) == Ascending(DOMAIN g.nodes)

(***************************************************************************)
(* Read operations of RequirementGraph, on a graph value g.                 *)
(***************************************************************************)
\* get_node: the node, or None when the id is absent.
HasNode(g, id) == id \in DOMAIN g.nodes

\* get_outgoing_edges / get_incoming_edges: the edge ids listed for the node.
\* self.edges[eid] raises KeyError for an id that is not in the edge dict.
GetOutgoingEdges(g, id) == IndexGet(g.adjacency, id)

GetIncomingEdges(g, id) == IndexGet(g.reverse_adjacency, id)

EdgeLookupFaults(g, id) ==
    \E eid \in Range(GetOutgoingEdges(g, id)) \cup Range(GetIncomingEdges(g, id)) :
        eid \notin 1..Len(g.edges)

\* get_dependencies without the "if target" test: every target a listed
\* dependency edge names, present or not.
GetDependencies_NoFilter(g, id) ==
    LET es == SelectSeq(GetOutgoingEdges(g, id),
                        LAMBDA eid : g.edges[eid].type \in DependencyTypes)
    IN  [i \in 1..Len(es) |-> g.edges[es[i]].target_id]

\* get_dependencies: the targets of the node's outgoing dependency edges that
\* are present, in index order.
GetDependencies(g, id) ==
    LET es == SelectSeq(GetOutgoingEdges(g, id),
                        LAMBDA eid : /\ g.edges[eid].type \in DependencyTypes
                                     /\ HasNode(g, g.edges[eid].target_id))
    IN  [i \in 1..Len(es) |-> g.edges[es[i]].target_id]

\* get_dependents: the sources of the node's incoming dependency edges that
\* are present, in index order.
GetDependents(g, id) ==
    LET es == SelectSeq(GetIncomingEdges(g, id),
                        LAMBDA eid : /\ g.edges[eid].type \in DependencyTypes
                                     /\ HasNode(g, g.edges[eid].source_id))
    IN  [i \in 1..Len(es) |-> g.edges[es[i]].source_id]

\* get_nodes_by_document
GetNodesByDocument(g, path) == {id \in DOMAIN g.nodes : g.nodes[id].source_document = path}

(***************************************************************************)
(* Mutations of RequirementGraph, as functions from graph to graph.         *)
(***************************************************************************)
\* add_node
AddNodeTo(g, id, node) ==
    Graph(DictSet(g.nodes, id, node),
          g.edges,
          IF id \in DOMAIN g.adjacency THEN g.adjacency ELSE DictSet(g.adjacency, id, <<>>),
          IF id \in DOMAIN g.reverse_adjacency THEN g.reverse_adjacency
          ELSE DictSet(g.reverse_adjacency, id, <<>>))

\* add_edge, the new edge taking the next edge id.
AddEdgeTo(g, edge) ==
    LET eid == Len(g.edges) + 1
    IN  Graph(g.nodes,
              Append(g.edges, edge),
              DictSet(g.adjacency, edge.source_id,
                      Append(IndexGet(g.adjacency, edge.source_id), eid)),
              DictSet(g.reverse_adjacency, edge.target_id,
                      Append(IndexGet(g.reverse_adjacency, edge.target_id), eid)))

\* _propagate_completion that goes on from every node it unblocks: the
\* unblocked dependent is treated as done and its own dependents are visited.
RECURSIVE PropagateFrom_Cascade(_, _, _)
PropagateFrom_Cascade(g, deps, i) ==
    IF i > Len(deps) THEN g
    ELSE LET d == deps[i]
             all_deps_complete ==
                 \A j \in DOMAIN GetDependencies(g, d) :
                     g.nodes[GetDependencies(g, d)[j]].status \in {"COMPLETED", "NOT_STARTED"}
             unblock == g.nodes[d].status = "BLOCKED" /\ all_deps_complete
             g1 == IF unblock THEN [g EXCEPT !.nodes[d].status = "NOT_STARTED"] ELSE g
             g2 == IF unblock THEN PropagateFrom_Cascade(g1, GetDependents(g1, d), 1) ELSE g1
         IN  PropagateFrom_Cascade(g2, deps, i + 1)

\* _propagate_completion: the loop over get_dependents(completed_node_id),
\* from position i of the list deps.
RECURSIVE PropagateFrom(_, _, _)
PropagateFrom(g, deps, i) ==
    IF i > Len(deps) THEN g
    ELSE LET d == deps[i]
             all_deps_complete ==
                 \A j \in DOMAIN GetDependencies(g, d) :
                     g.nodes[GetDependencies(g, d)[j]].status = "COMPLETED"
             g1 == IF g.nodes[d].status = "BLOCKED" /\ all_deps_complete
                   THEN [g EXCEPT !.nodes[d].status = "NOT_STARTED"]
                   ELSE g
         IN  PropagateFrom(g1, deps, i + 1)

PropagateCompletion(g, completed_node_id) ==
    PropagateFrom(g, GetDependents(g, completed_node_id), 1)

\* What update_status returns: the node, or None for an id not in the graph.
UpdateStatusReturn(g, node_id) == IF HasNode(g, node_id) THEN "node" ELSE "none"

\* update_status that creates a node for an id it does not find.
UpdateStatusOf_Fabricate(g, node_id, status) ==
    LET g0 == IF HasNode(g, node_id) THEN g
              ELSE AddNodeTo(g, node_id, Node("REQUIREMENT", "NOT_STARTED", "None", "None", {}, <<>>))
        g1 == [g0 EXCEPT !.nodes[node_id].status = status]
    IN  IF status = "COMPLETED" THEN PropagateCompletion(g1, node_id) ELSE g1

\* update_status
UpdateStatusOf(g, node_id, status) ==
    IF ~HasNode(g, node_id) THEN g
    ELSE LET g1 == [g EXCEPT !.nodes[node_id].status = status]
         IN  IF status = "COMPLETED" THEN PropagateCompletion(g1, node_id) ELSE g1

\* The first loop of merge_duplicate_nodes: every edge of the list es (the
\* incoming edges of node_id_2 when the loop starts) gets target node_id_1 and
\* is appended to the reverse index of node_id_1.
RECURSIVE TransferIncoming(_, _, _, _)
TransferIncoming(g, node_id_1, es, i) ==
    IF i > Len(es) THEN g
    ELSE TransferIncoming(
             [g EXCEPT !.edges[es[i]].target_id = node_id_1,
                       !.reverse_adjacency =
                           DictSet(@, node_id_1, Append(IndexGet(@, node_id_1), es[i]))],
             node_id_1, es, i + 1)

\* The second loop: every outgoing edge of node_id_2 gets source node_id_1 and
\* is appended to the forward index of node_id_1.
RECURSIVE TransferOutgoing(_, _, _, _)
TransferOutgoing(g, node_id_1, es, i) ==
    IF i > Len(es) THEN g
    ELSE TransferOutgoing(
             [g EXCEPT !.edges[es[i]].source_id = node_id_1,
                       !.adjacency =
                           DictSet(@, node_id_1, Append(IndexGet(@, node_id_1), es[i]))],
             node_id_1, es, i + 1)

\* dict.update: m1.update(m2); the values of m2 replace those of m1.
MetadataUpdate(m1, m2) ==
    [k \in DOMAIN m1 \cup DOMAIN m2 |-> IF k \in DOMAIN m2 THEN m2[k] ELSE m1[k]]

\* None and the empty string are both false in a condition.
NoneVal == "None"

Truthy(text) == text # NoneVal /\ text # ""

\* The "Merge metadata" block of merge_duplicate_nodes, on node1.
MergeFields(node1, node2) ==
    [node1 EXCEPT !.tags = node1.tags \cup node2.tags,
                  !.metadata = MetadataUpdate(node1.metadata, node2.metadata),
                  !.source_text = IF Truthy(node2.source_text) /\ ~Truthy(node1.source_text)
                                  THEN node2.source_text ELSE node1.source_text]

\* What merge_duplicate_nodes returns: node1, or None when either id is not in
\* the graph.
MergeReturn(g, node_id_1, node_id_2) ==
    IF HasNode(g, node_id_1) /\ HasNode(g, node_id_2) THEN "node" ELSE "none"

\* merge_duplicate_nodes.  There is no test for node_id_1 = node_id_2.
MergeDuplicateNodesOf(g, node_id_1, node_id_2) ==
    IF ~HasNode(g, node_id_1) \/ ~HasNode(g, node_id_2) THEN g
    ELSE LET g1 == TransferIncoming(g, node_id_1, GetIncomingEdges(g, node_id_2), 1)
             g2 == TransferOutgoing(g1, node_id_1, GetOutgoingEdges(g1, node_id_2), 1)
             g3 == [g2 EXCEPT !.nodes[node_id_1] = MergeFields(g2.nodes[node_id_1], g2.nodes[node_id_2])]
         IN  Graph(DictDel(g3.nodes, node_id_2), g3.edges,
                   DictDel(g3.adjacency, node_id_2), DictDel(g3.reverse_adjacency, node_id_2))

\* del self._adjacency[node_id_2] raises KeyError when the key is missing.
MergeFaults(g, node_id_1, node_id_2) ==
    /\ HasNode(g, node_id_1) /\ HasNode(g, node_id_2)
    /\ (node_id_2 \notin DOMAIN g.adjacency \/ node_id_2 \notin DOMAIN g.reverse_adjacency)

(***************************************************************************)
(* Serialization.  to_dict writes the nodes and edges as plain records with *)
(* the enums as their string values; from_dict builds a new graph with      *)
(* add_node and add_edge, so both indices are rebuilt.                      *)
(***************************************************************************)
NodeToDict(id, node) ==
    [id |-> id, type |-> NodeTypeValue(node.type), status |-> StatusValue(node.status),
     source_document |-> node.source_document, source_text |-> node.source_text,
     tags |-> node.tags, metadata |-> node.metadata]

NodeFromDict(data) ==
    Node(NodeTypeFromValue(data.type), StatusFromValue(data.status),
         data.source_document, data.source_text, data.tags, data.metadata)

EdgeToDict(id, edge) ==
    [id |-> id, source_id |-> edge.source_id, target_id |-> edge.target_id,
     type |-> EdgeTypeValue(edge.type)]

EdgeFromDict(data) == Edge(data.source_id, data.target_id, EdgeTypeFromValue(data.type))

\* to_dict: the node dicts (keyed here by id) and the list of edge dicts.
ToDict(g) ==
    [nodes |-> [id \in DOMAIN g.nodes |-> NodeToDict(id, g.nodes[id])],
     edges |-> [i \in 1..Len(g.edges) |-> EdgeToDict(i, g.edges[i])]]

EmptyGraph == Graph(EmptyMap, <<>>, EmptyMap, EmptyMap)

RECURSIVE AddNodesFrom(_, _, _)
AddNodesFrom(g, nds, todo) ==
    IF todo = {} THEN g
    ELSE LET id == CHOOSE x \in todo : TRUE
         IN  AddNodesFrom(AddNodeTo(g, nds[id].id, NodeFromDict(nds[id])), nds, todo \ {id})

RECURSIVE AddEdgesFrom(_, _, _)
AddEdgesFrom(g, eds, i) ==
    IF i > Len(eds) THEN g
    ELSE AddEdgesFrom(AddEdgeTo(g, EdgeFromDict(eds[i])), eds, i + 1)

\* from_dict
FromDict(data) ==
    AddEdgesFrom(AddNodesFrom(EmptyGraph, data.nodes, DOMAIN data.nodes), data.edges, 1)

(***************************************************************************)
(* Queries over the statuses.                                               *)
(***************************************************************************)
\* get_actionable_items: the ids of the nodes returned.
GetActionableItems(g) ==
    {id \in DOMAIN g.nodes :
        /\ g.nodes[id].status \in {"NOT_STARTED", "IN_PROGRESS"}
        /\ \A j \in DOMAIN GetDependencies(g, id) :
               g.nodes[GetDependencies(g, id)[j]].status \in {"COMPLETED", "NOT_APPLICABLE"}}

\* round(num / den * 100, 1) in tenths of a percent: num * 1000 / den rounded
\* to the nearest integer, a tie going to the even one.
RoundTenths(num, den) ==
    LET q == (num * 1000) \div den
        r == (num * 1000) % den
    IN  IF 2 * r > den \/ (2 * r = den /\ q % 2 = 1) THEN q + 1 ELSE q

\* get_completion_stats with the percentage taken over all nodes.
GetCompletionStats_OverTotal(g) ==
    LET stats == [v \in {StatusValue(st) : st \in CompletionStatus} |->
                     Cardinality({id \in DOMAIN g.nodes : StatusValue(g.nodes[id].status) = v})]
        total == Cardinality(DOMAIN g.nodes)
        completed == stats["completed"]
    IN  [total_nodes |-> total,
         by_status |-> stats,
         completion_percentage |-> IF total > 0 THEN RoundTenths(completed, total) ELSE 0,
         applicable_items |-> total,
         completed_items |-> completed]

\* get_completion_stats; completion_percentage is in tenths of a percent
\* (500 for 50.0).
GetCompletionStats(g) ==
    LET stats == [v \in {StatusValue(st) : st \in CompletionStatus} |->
                     Cardinality({id \in DOMAIN g.nodes : StatusValue(g.nodes[id].status) = v})]
        total == Cardinality(DOMAIN g.nodes)
        completed == stats["completed"]
        not_applicable == stats["not_applicable"]
        applicable_total == total - not_applicable
    IN  [total_nodes |-> total,
         by_status |-> stats,
         completion_percentage |->
             IF applicable_total > 0 THEN RoundTenths(completed, applicable_total) ELSE 0,
         applicable_items |-> applicable_total,
         completed_items |-> completed]

(***************************************************************************)
(* get_critical_path and _get_transitive_dependents.  The recursion shares  *)
(* one visited set: a call gives the set it returns, the visited set as it  *)
(* leaves it, and the number of calls made (itself included).               *)
(***************************************************************************)
CriticalPathLength == 10

RECURSIVE TransitiveDependents(_, _, _)
RECURSIVE TransitiveLoop(_, _, _, _)
RECURSIVE TransitiveLoop_SkipVisited(_, _, _, _)

\* The loop with a dependent that was visited before left out of the set.
TransitiveLoop_SkipVisited(g, deps, i, acc) ==
    IF i > Len(deps) THEN acc
    ELSE LET sub == TransitiveDependents(g, deps[i], acc.visited)
         IN  TransitiveLoop_SkipVisited(g, deps, i + 1,
                 [dependents |-> IF deps[i] \in acc.visited THEN acc.dependents
                                 ELSE acc.dependents \cup {deps[i]} \cup sub.dependents,
                  visited |-> sub.visited,
                  calls |-> acc.calls + sub.calls])

\* for dep in self.get_dependents(node_id), from position i of the list:
\* dependents.add(dep.id); dependents.update(<recursive call>)
TransitiveLoop(g, deps, i, acc) ==
    IF i > Len(deps) THEN acc
    ELSE LET sub == TransitiveDependents(g, deps[i], acc.visited)
         IN  TransitiveLoop(g, deps, i + 1,
                 [dependents |-> acc.dependents \cup {deps[i]} \cup sub.dependents,
                  visited |-> sub.visited,
                  calls |-> acc.calls + sub.calls])

\* _get_transitive_dependents(node_id, visited)
TransitiveDependents(g, node_id, visited) ==
    IF node_id \in visited THEN [dependents |-> {}, visited |-> visited, calls |-> 1]
    ELSE TransitiveLoop(g, GetDependents(g, node_id), 1,
                        [dependents |-> {}, visited |-> visited \cup {node_id}, calls |-> 1])

\* blocking_counts[node.id], the call made with visited = None
BlockingCount(g, node_id) == Cardinality(TransitiveDependents(g, node_id, {}).dependents)

\* sorted(blocking_counts.items(), key=count, reverse=True) one element at a
\* time: x goes behind the elements whose count is not below its own (the
\* sort is stable).
RECURSIVE SortedByCount(_, _, _)
SortedByCount(blocking_counts, ids, i) ==
    IF i = 0 THEN <<>>
    ELSE LET before == SortedByCount(blocking_counts, ids, i - 1)
             x == ids[i]
             ahead == SelectSeq(before, LAMBDA y : blocking_counts[y] >= blocking_counts[x])
             behind == SelectSeq(before, LAMBDA y : blocking_counts[y] < blocking_counts[x])
         IN  ahead \o <<x>> \o behind

\* sorted_nodes[:10]
Top(sorted_nodes) ==
    SubSeq(sorted_nodes, 1,
           IF Len(sorted_nodes) < CriticalPathLength THEN Len(sorted_nodes)
           ELSE CriticalPathLength)

\* get_critical_path with the completed nodes ranked as well.
GetCriticalPath_KeepCompleted(g) ==
    LET counted == NodeOrder(g)
        blocking_counts == [id \in Range(counted) |-> BlockingCount(g, id)]
    IN  Top(SortedByCount(blocking_counts, counted, Len(counted)))

\* get_critical_path, as the ids of the nodes returned
GetCriticalPath(g) ==
    LET counted == SelectSeq(NodeOrder(g), LAMBDA id : g.nodes[id].status # "COMPLETED")
        blocking_counts == [id \in Range(counted) |-> BlockingCount(g, id)]
    IN  Top(SortedByCount(blocking_counts, counted, Len(counted)))

(***************************************************************************)
(* evaluate_conditions.  condition_met is a field of condition nodes: True, *)
(* False or None; a node built without it has the default None.             *)
(***************************************************************************)
ConditionMet(node) == IF "condition_met" \in DOMAIN node THEN node.condition_met ELSE NoneVal

\* The body of the inner loop with a further step: under a condition that is
\* not false a not_started dependent is moved on to in_progress.
EvaluateEdge_Advance(g, cond, eid) ==
    LET edge == g.edges[eid]
    IN  IF edge.type # "CONDITIONAL_ON" \/ ~HasNode(g, edge.source_id) THEN g
        ELSE IF ConditionMet(g.nodes[cond]) = "False"
             THEN [g EXCEPT !.nodes[edge.source_id].status = "NOT_APPLICABLE"]
        ELSE IF g.nodes[edge.source_id].status = "NOT_APPLICABLE"
             THEN [g EXCEPT !.nodes[edge.source_id].status = "NOT_STARTED"]
        ELSE IF g.nodes[edge.source_id].status = "NOT_STARTED"
             THEN [g EXCEPT !.nodes[edge.source_id].status = "IN_PROGRESS"]
        ELSE g

\* The body of the inner loop, for the condition node cond and one of its
\* incoming edges.
EvaluateEdge(g, cond, eid) ==
    LET edge == g.edges[eid]
    IN  IF edge.type # "CONDITIONAL_ON" \/ ~HasNode(g, edge.source_id) THEN g
        ELSE IF ConditionMet(g.nodes[cond]) = "False"
             THEN [g EXCEPT !.nodes[edge.source_id].status = "NOT_APPLICABLE"]
        ELSE IF g.nodes[edge.source_id].status = "NOT_APPLICABLE"
             THEN [g EXCEPT !.nodes[edge.source_id].status = "NOT_STARTED"]
        ELSE g

\* for edge in self.get_incoming_edges(node.id), from position j of the list
RECURSIVE EvaluateIncoming(_, _, _, _)
EvaluateIncoming(g, cond, es, j) ==
    IF j > Len(es) THEN g
    ELSE EvaluateIncoming(EvaluateEdge(g, cond, es[j]), cond, es, j + 1)

\* for node in self.get_nodes_by_type(NodeType.CONDITION), from position i
RECURSIVE EvaluateFrom(_, _, _)
EvaluateFrom(g, conds, i) ==
    IF i > Len(conds) THEN g
    ELSE EvaluateFrom(EvaluateIncoming(g, conds[i], GetIncomingEdges(g, conds[i]), 1),
                      conds, i + 1)

\* get_nodes_by_type, as ids in the order of graph.nodes
GetNodesByType(g, node_type) ==
    SelectSeq(NodeOrder(g), LAMBDA id : g.nodes[id].type = node_type)

\* evaluate_conditions
EvaluateConditions(g) == EvaluateFrom(g, GetNodesByType(g, "CONDITION"), 1)

\* The removal of a changed document's nodes left out.
DeleteDocumentNodes_Keep(g, path) == g

(***************************************************************************)
(* Incremental reprocessing (IncrementalExtractor.process_new_or_changed).  *)
(***************************************************************************)
\* The old nodes of a changed document are deleted from graph.nodes alone:
\* edges and both indices are left as they are.
DeleteDocumentNodes(g, path) ==
    [g EXCEPT !.nodes = [id \in DOMAIN g.nodes \ GetNodesByDocument(g, path) |-> g.nodes[id]]]

\* The ids of the universe ids that have left no trace in the graph; uuid4
\* yields an id of this kind.
FreshIds(g, ids) ==
    ids \ (DOMAIN g.nodes \cup DOMAIN g.adjacency \cup DOMAIN g.reverse_adjacency
           \cup {g.edges[i].source_id : i \in 1..Len(g.edges)}
           \cup {g.edges[i].target_id : i \in 1..Len(g.edges)})

NewId(g, ids) == CHOOSE id \in FreshIds(g, ids) : \A other \in FreshIds(g, ids) : id <= other

\* The ids uuid4 can give a new node in the specifications that iterate over
\* graph.nodes: without a trace in the graph, and above the ids present.
LaterIds(g, ids) == {id \in FreshIds(g, ids) : \A n \in DOMAIN g.nodes : id > n}

LaterId(g, ids) == CHOOSE id \in LaterIds(g, ids) : \A other \in LaterIds(g, ids) : id <= other

\* The metadata extract gives every node it creates.
ItemMetadata == [k \in {"is_required"} |-> "true"]

\* extract, for a response of one item without references: create_node with
\* the document's path as provenance.
ExtractOneItem(g, path, ids) ==
    AddNodeTo(g, NewId(g, ids), Node("REQUIREMENT", "NOT_STARTED", path, NoneVal, {}, ItemMetadata))

(***************************************************************************)
(* TodoGenerator._determine_priority.  A text of the model is one of a few  *)
(* strings; Lower and KeywordsIn say what str.lower() and the substring     *)
(* test "keyword in text" give on them.  A keyword lies in the              *)
(* concatenation title + description + source_text when it lies in one of   *)
(* the three (no text of the model ends or begins with part of a keyword).  *)
(***************************************************************************)
CRITICAL_KEYWORDS ==
    {"ausschluss", "zwingend", "muss", "pflicht", "erforderlich", "unbedingt",
     "ausgeschlossen", "nicht berücksichtigt", "fehlen", "mangel", "ungültig", "disqualif"}

Lower(text) ==
    IF text = "Ausschlusskriterium" THEN "ausschlusskriterium"
    ELSE IF text = "Angebot" THEN "angebot"
    ELSE IF text = "Formblatt" THEN "formblatt"
    ELSE IF text = "Anlage" THEN "anlage"
    ELSE IF text = "Nachweis" THEN "nachweis"
    ELSE text

\* The keywords that are substrings of a lowered text.
KeywordsIn(text) ==
    IF text = "ausschlusskriterium" THEN {"ausschluss"} ELSE {}

\* (x or "") for an optional string.
OrEmpty(text) == IF text = NoneVal THEN "" ELSE text

\* title and description are fields of the nodes of the priority
\* specification only; elsewhere they play no part and are left out.
Title(node) == IF "title" \in DOMAIN node THEN node.title ELSE ""

Description(node) == IF "description" \in DOMAIN node THEN node.description ELSE ""

HasCriticalKeyword(node) ==
    \E part \in {OrEmpty(Title(node)), OrEmpty(Description(node)), OrEmpty(node.source_text)} :
        KeywordsIn(Lower(part)) \cap CRITICAL_KEYWORDS # {}

\* node.metadata.get("is_required") is True
IsRequired(node) ==
    "is_required" \in DOMAIN node.metadata /\ node.metadata["is_required"] = "true"

\* _determine_priority with the metadata rule ahead of the keyword rule.
DeterminePriority_RequiredFirst(g, node_id) ==
    LET node == g.nodes[node_id]
    IN  IF IsRequired(node) THEN "HIGH"
        ELSE IF HasCriticalKeyword(node) THEN "CRITICAL"
        ELSE IF node.type \in {"SIGNATURE", "DEADLINE"} THEN "CRITICAL"
        ELSE IF node.type = "DOCUMENT" THEN "HIGH"
        ELSE IF Len(GetDependents(g, node_id)) >= 3 THEN "HIGH"
        ELSE "MEDIUM"

\* _determine_priority(node), node = g.nodes[node_id]
DeterminePriority(g, node_id) ==
    LET node == g.nodes[node_id]
    IN  IF HasCriticalKeyword(node) THEN "CRITICAL"
        ELSE IF IsRequired(node) THEN "HIGH"
        ELSE IF node.type \in {"SIGNATURE", "DEADLINE"} THEN "CRITICAL"
        ELSE IF node.type = "DOCUMENT" THEN "HIGH"
        ELSE IF Len(GetDependents(g, node_id)) >= 3 THEN "HIGH"
        ELSE "MEDIUM"

(***************************************************************************)
(* TodoGenerator: the to-do items of the nodes.  An item is the node id, the *)
(* title, the priority, the status and blocked_by; the other fields of       *)
(* TodoItem are copies of fields of the node.                                *)
(***************************************************************************)
\* Priority.value
PriorityValue(priority) ==
    CASE priority = "CRITICAL" -> 1
      [] priority = "HIGH" -> 2
      [] priority = "MEDIUM" -> 3
      [] priority = "LOW" -> 4

\* The order of str on the titles of the model: "Angebot" <
\* "Ausschlusskriterium" < "Formblatt" < "formblatt 2".
TitleRank(title) ==
    CASE title = "" -> 0
      [] title = "Angebot" -> 1
      [] title = "Anlage" -> 2
      [] title = "Ausschlusskriterium" -> 3
      [] title = "Formblatt" -> 4
      [] title = "formblatt 2" -> 5

\* (x.priority.value, x.title) <= (y.priority.value, y.title)
KeyAtMost(x, y) ==
    \/ PriorityValue(x.priority) < PriorityValue(y.priority)
    \/ /\ PriorityValue(x.priority) = PriorityValue(y.priority)
       /\ TitleRank(x.title) <= TitleRank(y.title)

\* The titles of the nodes of deps whose status is not completed.
RECURSIVE NotCompleted(_, _, _)
NotCompleted(g, deps, i) ==
    IF i > Len(deps) THEN <<>>
    ELSE (IF g.nodes[deps[i]].status # "COMPLETED" THEN <<Title(g.nodes[deps[i]])>> ELSE <<>>)
             \o NotCompleted(g, deps, i + 1)

\* _node_to_todo(node), node = g.nodes[node_id]
NodeToTodo(g, node_id) ==
    [node_id |-> node_id, title |-> Title(g.nodes[node_id]),
     priority |-> DeterminePriority(g, node_id), status |-> g.nodes[node_id].status,
     blocked_by |-> NotCompleted(g, GetDependencies(g, node_id), 1),
     blocks |-> NotCompleted(g, GetDependents(g, node_id), 1)]

\* list.sort(key=...) is stable: an item goes behind the items whose key is
\* not above its own.
RECURSIVE SortTodos(_)
SortTodos(items) ==
    IF items = <<>> THEN <<>>
    ELSE LET head == SortTodos(SubSeq(items, 1, Len(items) - 1))
             item == items[Len(items)]
             before == SelectSeq(head, LAMBDA x : KeyAtMost(x, item))
             behind == SelectSeq(head, LAMBDA x : ~KeyAtMost(x, item))
         IN  before \o <<item>> \o behind

\* The loop of get_actionable_now over get_actionable_items().
RECURSIVE ActionableTodos(_, _, _)
ActionableTodos(g, order, i) ==
    IF i > Len(order) THEN <<>>
    ELSE LET todo == NodeToTodo(g, order[i])
         IN  (IF order[i] \in GetActionableItems(g) /\ todo.blocked_by = <<>>
              THEN <<todo>> ELSE <<>>) \o ActionableTodos(g, order, i + 1)

\* get_actionable_now()
GetActionableNow(g) == SortTodos(ActionableTodos(g, NodeOrder(g), 1))

\* get_summary()["actionable_now"]
SummaryActionableNow(g) == Len(GetActionableNow(g))

\* critical.sort(key=lambda x: x.title), stable.
RECURSIVE SortByTitle(_)
SortByTitle(items) ==
    IF items = <<>> THEN <<>>
    ELSE LET head == SortByTitle(SubSeq(items, 1, Len(items) - 1))
             item == items[Len(items)]
             before == SelectSeq(head, LAMBDA x : TitleRank(x.title) <= TitleRank(item.title))
             behind == SelectSeq(head, LAMBDA x : TitleRank(x.title) > TitleRank(item.title))
         IN  before \o <<item>> \o behind

\* The loop of get_critical_items over graph.nodes.values().
RECURSIVE CriticalTodos(_, _, _)
CriticalTodos(g, order, i) ==
    IF i > Len(order) THEN <<>>
    ELSE (IF g.nodes[order[i]].status \in {"COMPLETED", "NOT_APPLICABLE"} THEN <<>>
          ELSE LET todo == NodeToTodo(g, order[i])
               IN  IF todo.priority = "CRITICAL" THEN <<todo>> ELSE <<>>)
             \o CriticalTodos(g, order, i + 1)

\* get_critical_items()
GetCriticalItems(g) == SortByTitle(CriticalTodos(g, NodeOrder(g), 1))

\* get_summary()["critical_items"]
SummaryCriticalItems(g) == Len(GetCriticalItems(g))

\* get_summary()["critical_completed"]
SummaryCriticalCompleted(g) ==
    Len(SelectSeq(GetCriticalItems(g), LAMBDA c : c.status = "COMPLETED"))

(***************************************************************************)
(* RequirementExtractor._resolve_placeholders.  A title is one of a few      *)
(* strings; Words gives the words str.split() finds in it.                  *)
(* No word of the model is part of another one, so "a in b" is true exactly *)
(* when the words of a are consecutive words of b.                          *)
(***************************************************************************)
\* text.split() of a lowered text
Words(text) ==
    IF text = "" THEN <<>>
    ELSE IF text = "formblatt 2" THEN <<"formblatt", "2">>
    ELSE <<text>>

\* a in b, for lowered texts
SubstringOf(a, b) ==
    \E off \in 0..Len(Words(b)) :
        /\ off + Len(Words(a)) <= Len(Words(b))
        /\ \A k \in 1..Len(Words(a)) : Words(a)[k] = Words(b)[off + k]

\* _fuzzy_match: the Jaccard similarity of the two word sets is at least 0.6
FuzzyMatch(str1, str2) ==
    LET s1 == Range(Words(str1))
        s2 == Range(Words(str2))
    IN  /\ s1 # {} /\ s2 # {}
        /\ 10 * Cardinality(s1 \cap s2) >= 6 * Cardinality(s1 \cup s2)

\* The test of the inner loop, on placeholder.title.lower() and doc.title.lower()
TitlesMatch(placeholder_name, doc_name) ==
    \/ SubstringOf(placeholder_name, doc_name)
    \/ SubstringOf(doc_name, placeholder_name)
    \/ FuzzyMatch(placeholder_name, doc_name)

\* "placeholder" in n.tags
IsPlaceholder(node) == "placeholder" \in node.tags

\* The inner loop "for doc in real_docs" from position j: the first real
\* document whose title matches, 0 when there is none.  The titles are those
\* of the node objects collected before the loops (titles never change).
RECURSIVE FirstMatch(_, _, _, _)
FirstMatch(g0, placeholder, real_docs, j) ==
    IF j > Len(real_docs) THEN 0
    ELSE IF TitlesMatch(Lower(Title(g0.nodes[placeholder])), Lower(Title(g0.nodes[real_docs[j]])))
         THEN real_docs[j]
         ELSE FirstMatch(g0, placeholder, real_docs, j + 1)

\* The outer loop "for placeholder in placeholders" from position i.
RECURSIVE ResolveFrom(_, _, _, _, _)
ResolveFrom(g, g0, placeholders, real_docs, i) ==
    IF i > Len(placeholders) THEN g
    ELSE LET doc == FirstMatch(g0, placeholders[i], real_docs, 1)
         IN  ResolveFrom(IF doc = 0 THEN g ELSE MergeDuplicateNodesOf(g, doc, placeholders[i]),
                         g0, placeholders, real_docs, i + 1)

\* _resolve_placeholders(graph)
ResolvePlaceholders(g) ==
    ResolveFrom(g, g,
                SelectSeq(NodeOrder(g), LAMBDA id : IsPlaceholder(g.nodes[id])),
                SelectSeq(NodeOrder(g), LAMBDA id : /\ g.nodes[id].type = "DOCUMENT"
                                                    /\ ~IsPlaceholder(g.nodes[id])),
                1)

(***************************************************************************)
(* RequirementExtractor.extract.  One LLM request either returns a response *)
(* or raises.  content of a response: "valid" (a JSON object with one       *)
(* well-formed item), "bad_item" (a JSON object whose item is not an        *)
(* object), "malformed" (not JSON), "none" (no response, no choices, no     *)
(* message or no content).  An exception has a class and the marker words   *)
(* its text contains.                                                       *)
(***************************************************************************)
max_retries == 3

retry_delay == 2

RetryableMarkers ==
    {"rate limit", "timeout", "connection", "temporary",
     "429", "500", "502", "503", "504", "overloaded"}

Response(content) == [kind |-> "response", content |-> content, cls |-> "", words |-> {}]

Raise(cls, words) == [kind |-> "raise", content |-> "", cls |-> cls, words |-> words]

\* A response whose JSON object lists the given items, each an object with
\* the fields the schema requires.
ItemsResponse(items) ==
    [kind |-> "response", content |-> "items", cls |-> "", words |-> {}, items |-> items]

Item(item_type, title, tags_csv, requires_item, conditional_on_item, is_checked) ==
    [item_type |-> item_type, title |-> title, tags_csv |-> tags_csv,
     requires_item |-> requires_item, conditional_on_item |-> conditional_on_item,
     is_checked |-> is_checked]

\* text.strip() of the texts of the model.
Strip(text) == IF text = " " THEN "" ELSE IF text = " Anlage " THEN "Anlage" ELSE text

\* is_successful without the strip: blank text counts as content.
IsSuccessful_NoStrip(document) == document.error = NoneVal /\ document.text # ""

\* DocumentContent.is_successful
IsSuccessful(document) == document.error = NoneVal /\ Strip(document.text) # ""

\* The exception that leaves the try block of one attempt: "JSONDecodeError",
\* "ValueError", another class, or "" when the response was parsed.
RaisedInTry(outcome) ==
    IF outcome.kind = "raise" THEN outcome.cls
    ELSE IF outcome.content = "none" THEN "ValueError"
    ELSE IF outcome.content = "malformed" THEN "JSONDecodeError"
    ELSE ""

\* any(x in error_str for x in [...])
Retryable(outcome) == outcome.words \cap RetryableMarkers # {}

\* A delay that does not grow.
Pow2_Constant(n) == 1

\* 2 ** n for the exponents the loop uses.
Pow2(n) == IF n = 0 THEN 1 ELSE IF n = 1 THEN 2 ELSE 4

ExtractionResult(requests, sleeps, error, nodes_created, raised) ==
    [requests |-> requests, sleeps |-> sleeps, error |-> error,
     nodes_created |-> nodes_created, raised |-> raised]

\* The loop without retries: the first exception ends the call.
RetryLoop_NoRetry(script, attempt, requests, sleeps) ==
    LET outcome == script[attempt + 1]
    IN  [requests |-> requests + 1, sleeps |-> sleeps,
         error |-> IF RaisedInTry(outcome) = "" THEN NoneVal ELSE "LLM API error",
         content |-> outcome.content]

\* The loop "for attempt in range(max_retries)" from iteration attempt on;
\* script[attempt + 1] is what the client does at that request.  Gives the
\* requests issued, the sleeps made and the error the loop returns with
\* (None when it was left by break, with the content parsed).
RECURSIVE RetryLoop(_, _, _, _)
RetryLoop(script, attempt, requests, sleeps) ==
    LET slept == IF attempt > 0 THEN Append(sleeps, retry_delay * Pow2(attempt - 1)) ELSE sleeps
        outcome == script[attempt + 1]
        exc == RaisedInTry(outcome)
        final == attempt = max_retries - 1
        done(error) == [requests |-> requests + 1, sleeps |-> slept, error |-> error,
                        content |-> outcome.content]
        again == RetryLoop(script, attempt + 1, requests + 1, slept)
    IN  IF exc = "" THEN done(NoneVal)
        ELSE IF exc = "JSONDecodeError"
             THEN IF final THEN done("Failed to parse LLM response as JSON") ELSE again
        ELSE IF exc = "ValueError"
             THEN IF final THEN done("Empty API response") ELSE again
        ELSE IF Retryable(outcome) /\ ~final THEN again
        ELSE done("LLM API error")

\* _map_item_type
MapItemType(type_str) ==
    IF Lower(type_str) \in {NodeTypeValue(t) : t \in NodeType}
    THEN NodeTypeFromValue(Lower(type_str)) ELSE "REQUIREMENT"

\* [t.strip() for t in tags_csv.split(",") if t.strip()] for the tag strings
\* of the model.
ParseTags(tags_csv) ==
    IF tags_csv = "placeholder" THEN {"placeholder"}
    ELSE IF tags_csv = "formular, placeholder" THEN {"formular", "placeholder"}
    ELSE {}

\* find_nodes(query): the nodes whose title or description contains the
\* lowered query, in the order of graph.nodes.
FindNodes(g, query) ==
    SelectSeq(NodeOrder(g),
              LAMBDA id : \/ SubstringOf(Lower(query), Lower(Title(g.nodes[id])))
                          \/ SubstringOf(Lower(query), Lower(Description(g.nodes[id]))))

\* The first loop over the items, from item k: create_node for the item, the
\* id appended to nodes_created and recorded under the lowered title.
RECURSIVE CreateItemNodes(_, _, _, _, _)
CreateItemNodes(acc, path, items, k, ids) ==
    IF k > Len(items) THEN acc
    ELSE LET item == items[k]
             id == LaterId(acc.graph, ids)
             node_type == MapItemType(item.item_type)
             node == [type |-> node_type, title |-> item.title, description |-> "",
                      status |-> IF node_type = "CHECKBOX" /\ item.is_checked
                                 THEN "COMPLETED" ELSE "NOT_STARTED",
                      source_document |-> path, source_text |-> NoneVal,
                      tags |-> ParseTags(item.tags_csv), metadata |-> ItemMetadata]
         IN  CreateItemNodes([graph |-> AddNodeTo(acc.graph, id, node),
                              title_to_node |-> DictSet(acc.title_to_node, Lower(item.title), id),
                              nodes_created |-> Append(acc.nodes_created, id)],
                             path, items, k + 1, ids)

\* The node a requires_item / conditional_on_item names: looked up in the
\* titles of this response, then with find_nodes in the whole graph; 0 when
\* the reference is empty or matches nothing.
ResolveReference(g, title_to_node, reference) ==
    IF ~Truthy(reference) \/ Strip(reference) = "" THEN 0
    ELSE LET target_title == Lower(Strip(reference))
         IN  IF target_title \in DOMAIN title_to_node THEN title_to_node[target_title]
             ELSE LET existing == FindNodes(g, Strip(reference))
                  IN  IF existing # <<>> THEN existing[1] ELSE 0

\* The connect without the test for the source: an item that names itself
\* gets an edge to itself.
ConnectResolved_SelfEdge(g, source_id, target_id, type) ==
    IF target_id # 0 THEN AddEdgeTo(g, Edge(source_id, target_id, type)) ELSE g

\* if target_id and target_id != source_id: graph.connect(...)
ConnectResolved(g, source_id, target_id, type) ==
    IF target_id # 0 /\ target_id # source_id
    THEN AddEdgeTo(g, Edge(source_id, target_id, type)) ELSE g

\* The second loop over the items, from item k.
RECURSIVE CreateItemEdges(_, _, _, _)
CreateItemEdges(g, title_to_node, items, k) ==
    IF k > Len(items) THEN g
    ELSE LET item == items[k]
             source_id == title_to_node[Lower(item.title)]
             g1 == ConnectResolved(g, source_id,
                                   ResolveReference(g, title_to_node, item.requires_item),
                                   "REQUIRES")
             g2 == ConnectResolved(g1, source_id,
                                   ResolveReference(g1, title_to_node, item.conditional_on_item),
                                   "CONDITIONAL_ON")
         IN  CreateItemEdges(g2, title_to_node, items, k + 1)

\* extract, from the parsed response on: the nodes of the items, then the
\* edges of their references.
ExtractItems(g, path, items, ids) ==
    LET made == CreateItemNodes([graph |-> g, title_to_node |-> EmptyMap, nodes_created |-> <<>>],
                                path, items, 1, ids)
    IN  [graph |-> CreateItemEdges(made.graph, made.title_to_node, items, 1),
         nodes_created |-> Range(made.nodes_created)]

\* return ExtractionResult(..., error=...) before the node loop, with the
\* path counted as processed: self.processed_documents.add moved ahead.
ErrorReturn_Processed(g, document, requests, sleeps, error) ==
    [graph |-> g, result |-> ExtractionResult(requests, sleeps, error, {}, FALSE),
     processed |-> {document.path}]

\* return ExtractionResult(..., error=...): the returns of extract that lie
\* before the loops over the items.
ErrorReturn(g, document, requests, sleeps, error) ==
    [graph |-> g, result |-> ExtractionResult(requests, sleeps, error, {}, FALSE),
     processed |-> {}]

\* extract(document, graph): the result, the graph afterwards, and the paths
\* the call added to self.processed_documents.  raised: the call ended with
\* an exception instead of a result.
ExtractOf(g, document, script, ids) ==
    IF Truthy(document.error) \/ ~IsSuccessful(document)
    THEN ErrorReturn(g, document, 0, <<>>,
                     IF Truthy(document.error) THEN document.error ELSE "No content extracted")
    ELSE LET loop == RetryLoop(script, 0, 0, <<>>)
         IN  IF loop.error # NoneVal
             THEN ErrorReturn(g, document, loop.requests, loop.sleeps, loop.error)
             ELSE IF loop.content = "bad_item"
             THEN [graph |-> g,
                   result |-> ExtractionResult(loop.requests, loop.sleeps, "AttributeError", {}, TRUE),
                   processed |-> {}]
             ELSE IF loop.content = "items"
             THEN LET out == ExtractItems(g, document.path, script[loop.requests].items, ids)
                  IN  [graph |-> out.graph,
                       result |-> ExtractionResult(loop.requests, loop.sleeps, NoneVal,
                                                   out.nodes_created, FALSE),
                       processed |-> {document.path}]
             ELSE [graph |-> ExtractOneItem(g, document.path, ids),
                   result |-> ExtractionResult(loop.requests, loop.sleeps, NoneVal,
                                               {NewId(g, ids)}, FALSE),
                   processed |-> {document.path}]

(***************************************************************************)
(* Batches.  A batch value: the results extract returned (results), the     *)
(* error list (errors, the paths reported), what every call of extract      *)
(* made ended with (attempted), and whether the batch itself ended with an  *)
(* exception.  Both batch functions end with _resolve_placeholders.         *)
(***************************************************************************)
BatchRun(g, attempted, results, errors, raised) ==
    [graph |-> g, attempted |-> attempted, results |-> results, errors |-> errors,
     raised |-> raised]

\* The loop of process_directory from document i on: result = extract(doc,
\* graph); results.append(result).  An exception of extract leaves the loop
\* and the function.
RECURSIVE ProcessDirectoryLoop(_, _, _, _, _)
ProcessDirectoryLoop(run, documents, scripts, i, ids) ==
    IF i > Len(documents) THEN run
    ELSE LET call == ExtractOf(run.graph, documents[i], scripts[i], ids)
         IN  IF call.result.raised
             THEN BatchRun(call.graph, Append(run.attempted, call.result),
                           run.results, run.errors, TRUE)
             ELSE ProcessDirectoryLoop(
                      BatchRun(call.graph, Append(run.attempted, call.result),
                               Append(run.results, call.result), run.errors, FALSE),
                      documents, scripts, i + 1, ids)

\* process_directory: the loop, then self._resolve_placeholders(graph) unless
\* an exception has left the function.
ProcessDirectoryOf(g, documents, scripts, ids) ==
    LET run == ProcessDirectoryLoop(BatchRun(g, <<>>, <<>>, <<>>, FALSE), documents, scripts, 1, ids)
    IN  IF run.raised THEN run ELSE [run EXCEPT !.graph = ResolvePlaceholders(run.graph)]

\* The loop of run_extraction from document i on, every document downloaded
\* and none skipped: the result of extract is not looked at; an exception is
\* caught and appended to errors.
RECURSIVE RunExtractionLoop(_, _, _, _, _)
RunExtractionLoop(run, documents, scripts, i, ids) ==
    IF i > Len(documents) THEN run
    ELSE LET call == ExtractOf(run.graph, documents[i], scripts[i], ids)
         IN  RunExtractionLoop(
                 BatchRun(call.graph, Append(run.attempted, call.result), run.results,
                          IF call.result.raised THEN Append(run.errors, documents[i].path)
                          ELSE run.errors,
                          FALSE),
                 documents, scripts, i + 1, ids)

\* run_extraction: the loop, then self.extractor._resolve_placeholders(graph);
\* the graph that is saved is the resolved one.
RunExtractionOf(g, documents, scripts, ids) ==
    LET run == RunExtractionLoop(BatchRun(g, <<>>, <<>>, <<>>, FALSE), documents, scripts, 1, ids)
    IN  [run EXCEPT !.graph = ResolvePlaceholders(run.graph)]

(***************************************************************************)
(* IncrementalExtractor.process_new_or_changed, for one document of the     *)
(* list; content_hash is _hash_content(doc.text).                           *)
(***************************************************************************)
\* One iteration of the loop: skipped when the hash is the recorded one;
\* the nodes of the path deleted when another hash is recorded; then
\* extract, and the hash recorded unless extract raised.
ProcessNewOrChangedOf(g, hashes, document, content_hash, script, ids) ==
    IF document.path \in DOMAIN hashes /\ hashes[document.path] = content_hash
    THEN [graph |-> g, document_hashes |-> hashes, skipped |-> TRUE, deleted |-> {},
          result |-> ExtractionResult(0, <<>>, NoneVal, {}, FALSE)]
    ELSE LET g1 == IF document.path \in DOMAIN hashes
                   THEN DeleteDocumentNodes(g, document.path) ELSE g
             call == ExtractOf(g1, document, script, ids)
         IN  [graph |-> call.graph,
              document_hashes |-> IF call.result.raised THEN hashes
                                  ELSE DictSet(hashes, document.path, content_hash),
              skipped |-> FALSE,
              deleted |-> DOMAIN g.nodes \ DOMAIN g1.nodes,
              result |-> call.result]

(***************************************************************************)
(* The database of GraphService: the tables "nodes" and "edges", each a map *)
(* from the id of a row to its columns.  save_graph upserts one row per     *)
(* node and per edge of the graph and deletes nothing; an upsert sets the   *)
(* columns it is given and leaves the other columns of an existing row.     *)
(* load_graph builds a graph from all the rows.                             *)
(***************************************************************************)
EmptyStore == [nodes |-> EmptyMap, edges |-> EmptyMap]

\* notes is a field of the nodes of the store specification; a node built
\* without it has the default None.
Notes(node) == IF "notes" \in DOMAIN node THEN node.notes ELSE NoneVal

\* documents(filename): the file name of the row of the table "documents".
Filename(document_id) ==
    CASE document_id = "uuid-doc1" -> "doc1"
      [] OTHER -> NoneVal

\* node_data of save_graph: condition_met and notes are not among the
\* columns, and document_id is set only for a source_document of the map.
NodeData(node, document_id_map) ==
    LET node_data == [type |-> NodeTypeValue(node.type), title |-> Title(node),
                      description |-> Description(node),
                      status |-> StatusValue(node.status),
                      source_text |-> IF Truthy(node.source_text) THEN node.source_text
                                      ELSE "",
                      tags |-> node.tags, metadata |-> node.metadata]
    IN  IF Truthy(node.source_document) /\ node.source_document \in DOMAIN document_id_map
        THEN DictSet(node_data, "document_id", document_id_map[node.source_document])
        ELSE node_data

\* The row of an edge in save_graph.
EdgeData(edge) ==
    [source_node_id |-> edge.source_id, target_node_id |-> edge.target_id,
     type |-> EdgeTypeValue(edge.type)]

\* table.upsert(rows): rows is a map from id to columns.
Upsert(table, rows) ==
    [id \in DOMAIN table \cup DOMAIN rows |->
         IF id \notin DOMAIN rows THEN table[id]
         ELSE IF id \in DOMAIN table THEN MetadataUpdate(table[id], rows[id])
         ELSE rows[id]]

\* save_graph(project_id, graph, document_id_map)
SaveGraphOf(st, g, document_id_map) ==
    [nodes |-> Upsert(st.nodes, [id \in DOMAIN g.nodes |->
                                     NodeData(g.nodes[id], document_id_map)]),
     edges |-> Upsert(st.edges, [i \in 1..Len(g.edges) |-> EdgeData(g.edges[i])])]

\* Node(...) of load_graph: condition_met and notes are not passed and take
\* their defaults.
RowNode(row) ==
    [type |-> NodeTypeFromValue(row.type), title |-> row.title,
     description |-> OrEmpty(row.description),
     status |-> StatusFromValue(row.status),
     source_document |-> IF "document_id" \in DOMAIN row THEN Filename(row.document_id)
                         ELSE NoneVal,
     source_text |-> OrEmpty(row.source_text), tags |-> row.tags,
     metadata |-> row.metadata, condition_met |-> NoneVal, notes |-> NoneVal]

RowEdge(row) == Edge(row.source_node_id, row.target_node_id, EdgeTypeFromValue(row.type))

RECURSIVE LoadNodes(_, _, _, _)
LoadNodes(g, rows, order, i) ==
    IF i > Len(order) THEN g
    ELSE LoadNodes(AddNodeTo(g, order[i], RowNode(rows[order[i]])), rows, order, i + 1)

RECURSIVE LoadEdges(_, _, _, _)
LoadEdges(g, rows, order, i) ==
    IF i > Len(order) THEN g
    ELSE LoadEdges(AddEdgeTo(g, RowEdge(rows[order[i]])), rows, order, i + 1)

\* load_graph(project_id)
LoadGraphOf(st) ==
    LoadEdges(LoadNodes(EmptyGraph, st.nodes, Ascending(DOMAIN st.nodes), 1),
              st.edges, Ascending(DOMAIN st.edges), 1)

(***************************************************************************)
(* Inputs of the operations.                                                *)
(***************************************************************************)
DocumentPaths == {"doc1"}

ContentHashes == {"h1", "h2"}

\* What one extract call does: an error result, or a response of one item.
ExtractOutcomes == {"error", "one_item"}

\* Node(id, type, title, description, status=...): the other fields at their
\* dataclass defaults.
PlainNode(status) == Node("REQUIREMENT", status, NoneVal, NoneVal, {}, EmptyMap)

\* One dependency type and one type that is no dependency.
PlainEdgeTypes == {"REQUIRES", "REFERENCES"}

\* The statuses the specification of the whole interface sets.
ApiStatuses == {"BLOCKED", "COMPLETED"}

\* Nodes with tags, metadata and source_text: the defaults, two nodes whose
\* metadata disagree on the key "k", and one with another key and an empty text.
RichNodes ==
    {Node("REQUIREMENT", "NOT_STARTED", NoneVal, NoneVal, {}, EmptyMap),
     Node("REQUIREMENT", "NOT_STARTED", NoneVal, "text1", {"t1"}, [k \in {"k"} |-> "1"]),
     Node("REQUIREMENT", "NOT_STARTED", NoneVal, "text2", {"t2"}, [k \in {"k"} |-> "2"]),
     Node("REQUIREMENT", "NOT_STARTED", NoneVal, "", {"t1"}, [k \in {"j"} |-> "1"])}

\* The statuses of the statistics specification.
StatStatuses == {"COMPLETED", "NOT_APPLICABLE", "BLOCKED"}

Document(path, text, error) == [path |-> path, text |-> text, error |-> error]

\* Documents: readable, empty, blank, and carrying a read error.
Documents ==
    {Document(p, t, e) : p \in DocumentPaths, t \in {"text", "", " "},
                         e \in {NoneVal, "", "read failed"}}

\* What the LLM client can do at one request.
LLMOutcomes ==
    {Response(c) : c \in {"valid", "bad_item", "malformed", "none"}}
        \cup {Raise(c, w) : c \in {"ValueError", "APIError"}, w \in {{}, {"429"}}}

\* What the client does at each of the requests of one call.
Scripts == [1..max_retries -> LLMOutcomes]

\* The client of a call that never reaches it.
NoRequests == [i \in 1..max_retries |-> Response("none")]

\* A node with a title and a description.
TitledNode(title, description, type, source_text, metadata) ==
    [title |-> title, description |-> description, type |-> type,
     status |-> "NOT_STARTED", source_document |-> NoneVal, source_text |-> source_text,
     tags |-> {}, metadata |-> metadata]

\* The nodes whose priority is determined: every type the rules name and
\* one they do not, is_required true, false or absent, and the keyword in
\* the title, the description, the source text or nowhere.
PriorityNodes ==
    {TitledNode(texts[1], texts[2], ty, texts[3], md) :
         texts \in {<<"Angebot", "", NoneVal>>, <<"Ausschlusskriterium", "", NoneVal>>,
                    <<"Angebot", "Ausschlusskriterium", NoneVal>>,
                    <<"Angebot", "", "Ausschlusskriterium">>},
         ty \in {"REQUIREMENT", "SIGNATURE", "DEADLINE", "DOCUMENT"},
         md \in {EmptyMap, [k \in {"is_required"} |-> "true"],
                 [k \in {"is_required"} |-> "false"]}}

\* The dependency edges of the critical path specification: a diamond
\* (2 and 3 depend on 1, 4 depends on 2 and 3), the edge that closes it to a
\* cycle, and a self-loop.
PathEdges == {<<2, 1>>, <<3, 1>>, <<4, 2>>, <<4, 3>>, <<1, 4>>, <<1, 1>>}

\* A condition node with its condition_met.
ConditionNode(condition_met) ==
    [type |-> "CONDITION", status |-> "NOT_STARTED", source_document |-> NoneVal,
     source_text |-> NoneVal, tags |-> {}, metadata |-> EmptyMap,
     condition_met |-> condition_met]

\* Conditions that are met, not met and undecided, and requirements that
\* are open, done and not applicable.
ConditionalNodes ==
    {ConditionNode(m) : m \in {"True", "False", NoneVal}}
        \cup {PlainNode(st) : st \in {"NOT_STARTED", "COMPLETED", "NOT_APPLICABLE"}}

\* A node with a title and tags.
TaggedNode(title, type, tags) ==
    [TitledNode(title, "", type, NoneVal, EmptyMap) EXCEPT !.tags = tags]

\* Document nodes: real ones and ones tagged as placeholders, under three
\* titles of which two match each other.
DocumentNodes ==
    {TaggedNode(title, "DOCUMENT", tags) :
         title \in {"Formblatt", "formblatt 2", "Anlage"}, tags \in {{}, {"placeholder"}}}

\* A node with every field that the store specification follows.
StoredNode(type, title, status, source_document, source_text, condition_met, notes) ==
    [type |-> type, title |-> title, description |-> "", status |-> status,
     source_document |-> source_document, source_text |-> source_text, tags |-> {},
     metadata |-> EmptyMap, condition_met |-> condition_met, notes |-> notes]

\* A requirement from a document, a condition that is met, and a completed
\* requirement with a note and without a source.
StoredNodes ==
    {StoredNode("REQUIREMENT", "Angebot", "NOT_STARTED", "doc1", "text1", NoneVal, NoneVal),
     StoredNode("CONDITION", "Anlage", "NOT_STARTED", "doc1", "text1", "True", NoneVal),
     StoredNode("REQUIREMENT", "Formblatt", "COMPLETED", NoneVal, NoneVal, NoneVal, "checked")}

\* The rows of the table "documents", as the map from file name to id.
DocumentIdMap == [filename \in DocumentPaths |-> "uuid-" \o filename]

\* document_id_map of save_graph: not given, or the map of the documents.
DocumentIdMaps == {EmptyMap, DocumentIdMap}

\* The nodes of the to-do specification: two titles, and a type of priority
\* MEDIUM and one of priority CRITICAL.
TodoNodes ==
    {TitledNode(title, "", type, NoneVal, EmptyMap) :
         title \in {"Angebot", "Formblatt"}, type \in {"REQUIREMENT", "SIGNATURE"}}

\* _hash_content on the texts of the model: different texts, different
\* hashes.
HashContent(text) == IF text = "v1" THEN "h1" ELSE IF text = "v2" THEN "h2" ELSE "h0"

\* Two documents, each in two versions of its text.
VersionedDocuments ==
    {Document(p, t, NoneVal) : p \in {"doc1", "doc2"}, t \in {"v1", "v2"}}

\* Batches of two documents, each readable or blank.
BatchDocuments ==
    {<<Document("doc1", t1, NoneVal), Document("doc2", t2, NoneVal)>> :
         t1 \in {"text", " "}, t2 \in {"text", " "}}

\* A client that does the same at every request of a call.
SteadyScripts == {[i \in 1..max_retries |-> o] : o \in LLMOutcomes}

\* What the client answers for a document that names an annex it does not
\* hold (a document item tagged as placeholder), for the annex itself, and
\* for a document with a plain requirement.
ItemScripts ==
    {[i \in 1..max_retries |-> ItemsResponse(<<item>>)] :
         item \in {Item("document", "Anlage", "placeholder", "", "", FALSE),
                   Item("document", "Anlage", "", "", "", FALSE),
                   Item("requirement", "Angebot", "", "", "", FALSE)}}

\* Items with references: to the item itself, to another title with blanks
\* around it, to a title that no item and no node has, and a blank one; and
\* an item whose title is that of another item in lower case.
ReferenceItems ==
    {Item("requirement", "Angebot", "", "Angebot", "", FALSE),
     Item("requirement", "Angebot", "", " Anlage ", " ", FALSE),
     Item("document", "Anlage", "", "", "Angebot", FALSE),
     Item("document", "Anlage", "", "Angebot", "Anlage", FALSE),
     Item("requirement", "Formblatt", "", "Nachweis", "Nachweis", FALSE),
     Item("requirement", "angebot", "", "Anlage", "", FALSE)}

\* Responses of two items.
ReferenceScripts ==
    {[i \in 1..max_retries |-> ItemsResponse(<<a, b>>)] :
         a \in ReferenceItems, b \in ReferenceItems}

\* The client of a worker: a valid response at every request, or none.
WorkerScripts == {[i \in 1..max_retries |-> Response(c)] : c \in {"valid", "none"}}

\* The two documents of a batch.
TwoDocuments == <<Document("doc1", "v1", NoneVal), Document("doc2", "v1", NoneVal)>>

NoBatch == [op |-> "none", documents |-> <<>>, attempted |-> <<>>, results |-> <<>>,
            errors |-> <<>>, raised |-> FALSE]

NoExtraction == [document |-> Document("", "", NoneVal), script |-> <<>>,
                 result |-> ExtractionResult(0, <<>>, NoneVal, {}, FALSE)]

(***************************************************************************)
(* last: the latest call, when it was a merge, a reprocessing, a reload, a  *)
(* status update that changed another node or a call that found no node;    *)
(* Quiet after any other call.  a, b: the ids given; ret: what was          *)
(* returned; out: the other nodes the call changed or removed.              *)
(***************************************************************************)
Call(op, a, b, ret, out) == [op |-> op, a |-> a, b |-> b, ret |-> ret, out |-> out]

Quiet == Call("other", 0, 0, "", {})

SetGraph(g) ==
    /\ nodes' = g.nodes
    /\ edges' = g.edges
    /\ adjacency' = g.adjacency
    /\ reverse_adjacency' = g.reverse_adjacency

(***************************************************************************)
(* Initial state: RequirementGraph() and IncrementalExtractor().            *)
(***************************************************************************)
Init ==
    /\ nodes = EmptyMap
    /\ edges = <<>>
    /\ adjacency = EmptyMap
    /\ reverse_adjacency = EmptyMap
    /\ document_hashes = EmptyMap
    /\ last = Quiet
    /\ extraction = NoExtraction
    /\ batch = NoBatch
    /\ store = EmptyStore
    /\ jobs = <<>>

(***************************************************************************)
(* Operations.                                                              *)
(***************************************************************************)
\* graph.add_node(node), node.id = id
AddNode(id, node) ==
    /\ SetGraph(AddNodeTo(G, id, node))
    /\ last' = Quiet
    /\ UNCHANGED <<document_hashes, extraction, batch, store, jobs>>

\* graph.connect(source_id, target_id, type), while the graph has fewer than
\* max_edges edges
ConnectWithin(max_edges, source_id, target_id, type) ==
    /\ Len(edges) < max_edges
    /\ SetGraph(AddEdgeTo(G, Edge(source_id, target_id, type)))
    /\ last' = Quiet
    /\ UNCHANGED <<document_hashes, extraction, batch, store, jobs>>

\* graph.connect(source_id, target_id, type)
Connect(source_id, target_id, type) == ConnectWithin(MaxEdges, source_id, target_id, type)

\* graph.update_status(node_id, status)
UpdateStatus(node_id, status) ==
    LET g1 == UpdateStatusOf(G, node_id, status)
        changed == {id \in DOMAIN nodes \ {node_id} : g1.nodes[id].status # nodes[id].status}
    IN  /\ SetGraph(g1)
        /\ last' = IF UpdateStatusReturn(G, node_id) = "none"
                   THEN Call("update_status", node_id, 0, "none", {})
                   ELSE IF changed # {} THEN Call("update_status", node_id, 0, "node", changed)
                   ELSE Quiet
        /\ UNCHANGED <<document_hashes, extraction, batch, store, jobs>>

\* graph.merge_duplicate_nodes(node_id_1, node_id_2)
MergeDuplicateNodes(node_id_1, node_id_2) ==
    /\ ~MergeFaults(G, node_id_1, node_id_2)
    /\ SetGraph(MergeDuplicateNodesOf(G, node_id_1, node_id_2))
    /\ last' = Call("merge_duplicate_nodes", node_id_1, node_id_2,
                    MergeReturn(G, node_id_1, node_id_2), {})
    /\ UNCHANGED <<document_hashes, extraction, batch, store, jobs>>

\* One document of process_new_or_changed: skipped when its hash is the
\* recorded one; its old nodes deleted when the hash differs; then extract,
\* and the hash recorded.
ProcessDocument(path, content_hash, outcome, ids) ==
    LET script == [i \in 1..max_retries |->
                      Response(IF outcome = "one_item" THEN "valid" ELSE "none")]
        run == ProcessNewOrChangedOf(G, document_hashes, Document(path, "text", NoneVal),
                                     content_hash, script, ids)
    IN  /\ outcome = "one_item"
               => /\ ~(path \in DOMAIN document_hashes /\ document_hashes[path] = content_hash)
                  /\ FreshIds(DeleteDocumentNodes(G, path), ids) # {}
        /\ SetGraph(run.graph)
        /\ document_hashes' = run.document_hashes
        /\ last' = Call("process_document", 0, 0,
                        IF run.skipped THEN "skipped" ELSE outcome, run.deleted)
        /\ UNCHANGED <<extraction, batch, store, jobs>>

\* RequirementGraph.from_dict(graph.to_dict()): the graph saved and loaded again.
Reload ==
    /\ SetGraph(FromDict(ToDict(G)))
    /\ last' = Call("from_dict", 0, 0, "graph", {})
    /\ UNCHANGED <<document_hashes, extraction, batch, store, jobs>>

\* What TenderProject.__init__ finds over a saved graph: the graph read
\* from the file that save() wrote, and a new IncrementalExtractor.
NewSessionOf(g) == [graph |-> FromDict(ToDict(g)), document_hashes |-> EmptyMap]

\* The process ends and TenderProject(...) is created again.
NewSession ==
    /\ SetGraph(NewSessionOf(G).graph)
    /\ document_hashes' = NewSessionOf(G).document_hashes
    /\ last' = Call("new_session", 0, 0, "", {})
    /\ UNCHANGED <<extraction, batch, store, jobs>>

\* extractor.extract(document, graph), the client acting as script says.
Extract(document, script, ids) ==
    LET call == ExtractOf(G, document, script, ids)
    IN  /\ FreshIds(G, ids) # {}
        /\ SetGraph(call.graph)
        /\ extraction' = [document |-> document, script |-> script, result |-> call.result]
        /\ last' = Quiet
        /\ UNCHANGED <<document_hashes, batch, store, jobs>>

RecordBatch(op, documents, run) ==
    /\ SetGraph(run.graph)
    /\ batch' = [op |-> op, documents |-> documents, attempted |-> run.attempted,
                 results |-> run.results, errors |-> run.errors, raised |-> run.raised]
    /\ last' = Quiet
    /\ UNCHANGED <<document_hashes, extraction, store, jobs>>

\* extractor.process_directory(documents, graph)
ProcessDirectory(documents, scripts, ids) ==
    /\ Cardinality(FreshIds(G, ids)) >= Len(documents)
    /\ RecordBatch("process_directory", documents, ProcessDirectoryOf(G, documents, scripts, ids))

\* ExtractionService.run_extraction over the documents of a project
RunExtraction(documents, scripts, ids) ==
    /\ Cardinality(FreshIds(G, ids)) >= Len(documents)
    /\ RecordBatch("run_extraction", documents, RunExtractionOf(G, documents, scripts, ids))

\* incremental.process_new_or_changed([document], graph)
ProcessNewOrChanged(document, script, ids) ==
    LET run == ProcessNewOrChangedOf(G, document_hashes, document,
                                     HashContent(document.text), script, ids)
    IN  /\ FreshIds(G, ids) # {}
        /\ SetGraph(run.graph)
        /\ document_hashes' = run.document_hashes
        /\ extraction' = IF run.skipped THEN extraction
                         ELSE [document |-> document, script |-> script, result |-> run.result]
        /\ last' = Call("process_new_or_changed", 0, 0,
                        IF run.skipped THEN "skipped"
                        ELSE IF run.result.raised THEN "raised" ELSE "processed",
                        run.deleted)
        /\ UNCHANGED <<batch, store, jobs>>

\* A web route that writes a status into the node's row:
\*   supabase.table("nodes").update({"status": status}).eq("id", node_id)
\* and answers 404 when no row was updated.  The rows are the stored nodes;
\* status is the enum's value string.
WriteStatusRow(route, node_id, status) ==
    /\ nodes' = IF HasNode(G, node_id)
                THEN [nodes EXCEPT ![node_id].status = StatusFromValue(status)]
                ELSE nodes
    /\ last' = Call(route, node_id, 0, IF HasNode(G, node_id) THEN "done" ELSE "404", {})
    /\ UNCHANGED <<edges, adjacency, reverse_adjacency, document_hashes, extraction, batch,
                   store, jobs>>

\* PUT <project_id>/todos/<node_id>/complete
WebMarkComplete(node_id) == WriteStatusRow("todos/complete", node_id, "completed")

\* PUT <project_id>/todos/<node_id>/status with a status of valid_statuses
WebUpdateStatus(node_id, status) == WriteStatusRow("todos/status", node_id, status)

\* PUT <project_id>/nodes/<node_id> with a status in the body
WebUpdateNode(node_id, status) == WriteStatusRow("nodes", node_id, status)

\* TenderProject.mark_complete(search_term); matches: the nodes find_nodes
\* returns for the term.  Only a single match is completed.
CliMarkComplete(matches) ==
    IF Cardinality(matches) # 1
    THEN /\ last' = Call("mark_complete", 0, 0, "False", {})
         /\ UNCHANGED <<nodes, edges, adjacency, reverse_adjacency, document_hashes,
                        extraction, batch, store, jobs>>
    ELSE LET node_id == CHOOSE id \in matches : TRUE
         IN  /\ SetGraph(UpdateStatusOf(G, node_id, "COMPLETED"))
             /\ last' = Call("mark_complete", node_id, 0, "done", {})
             /\ UNCHANGED <<document_hashes, extraction, batch, store, jobs>>

\* graph.create_node(...), the new node the last one of graph.nodes.
CreateLater(node, ids) ==
    /\ LaterIds(G, ids) # {}
    /\ AddNode(LaterId(G, ids), node)

\* extractor._resolve_placeholders(graph)
ResolvePlaceholdersCall ==
    /\ \A id \in DOMAIN nodes : id \in DOMAIN adjacency /\ id \in DOMAIN reverse_adjacency
    /\ SetGraph(ResolvePlaceholders(G))
    /\ last' = Call("resolve_placeholders", 0, 0, "",
                    DOMAIN nodes \ DOMAIN ResolvePlaceholders(G).nodes)
    /\ UNCHANGED <<document_hashes, extraction, batch, store, jobs>>

\* graph.evaluate_conditions()
EvaluateConditionsCall ==
    /\ SetGraph(EvaluateConditions(G))
    /\ last' = Call("evaluate_conditions", 0, 0, "",
                    {id \in DOMAIN nodes : EvaluateConditions(G).nodes[id].status # nodes[id].status})
    /\ UNCHANGED <<document_hashes, extraction, batch, store, jobs>>

\* graph_service.save_graph(project_id, graph, document_id_map)
SaveGraph(document_id_map) ==
    /\ store' = SaveGraphOf(store, G, document_id_map)
    /\ last' = Call("save_graph", 0, 0, "", {})
    /\ UNCHANGED <<nodes, edges, adjacency, reverse_adjacency, document_hashes, extraction,
                   batch, jobs>>

\* graph = graph_service.load_graph(project_id)
LoadGraph ==
    /\ SetGraph(LoadGraphOf(store))
    /\ last' = Call("load_graph", 0, 0, "", DOMAIN store.nodes \ DOMAIN nodes)
    /\ UNCHANGED <<document_hashes, extraction, batch, store, jobs>>

(***************************************************************************)
(* The processing route and its background threads.  A job is its row       *)
(* (status), the position of its thread (pc: "started", "running",          *)
(* "loaded", "extracted", "saved", and "done" once run_extraction has       *)
(* returned) and the graph the thread loaded.                               *)
(***************************************************************************)
Job(status, pc, graph) == [status |-> status, pc |-> pc, graph |-> graph]

\* uuid4 in the thread of job j: an id no row and no other thread holds.
WorkerIds(j) ==
    NodeIds \ (DOMAIN store.nodes
                  \cup UNION {DOMAIN jobs[k].graph.nodes : k \in DOMAIN jobs \ {j}})

StepJob(j, job) ==
    /\ jobs' = [jobs EXCEPT ![j] = job]
    /\ last' = Quiet
    /\ UNCHANGED <<nodes, edges, adjacency, reverse_adjacency, document_hashes, extraction,
                   batch, store>>

\* POST /projects/<project_id>/process: the job row is inserted as pending
\* and the thread is started; no row of the table is read.
StartProcessing ==
    /\ Len(jobs) < MaxJobs
    /\ jobs' = Append(jobs, Job("pending", "started", EmptyGraph))
    /\ last' = Quiet
    /\ UNCHANGED <<nodes, edges, adjacency, reverse_adjacency, document_hashes, extraction,
                   batch, store>>

\* run_extraction: self._update_job(job_id, status="running", ...)
WorkerRunning(j) ==
    /\ jobs[j].pc = "started"
    /\ StepJob(j, Job("running", "running", jobs[j].graph))

\* run_extraction: the project has no documents.
WorkerNoDocuments(j) ==
    /\ jobs[j].pc = "running"
    /\ StepJob(j, Job("completed", "done", jobs[j].graph))

\* run_extraction: graph = self.graph_service.load_graph(project_id)
WorkerLoad(j) ==
    /\ jobs[j].pc = "running"
    /\ StepJob(j, Job("running", "loaded", LoadGraphOf(store)))

\* run_extraction: the loop over the documents and _resolve_placeholders
WorkerExtract(j, documents, scripts) ==
    /\ jobs[j].pc = "loaded"
    /\ Cardinality(FreshIds(jobs[j].graph, WorkerIds(j))) >= Len(documents)
    /\ StepJob(j, Job("running", "extracted",
                      RunExtractionOf(jobs[j].graph, documents, scripts, WorkerIds(j)).graph))

\* run_extraction: self.graph_service.save_graph(project_id, graph, doc_id_map)
WorkerSave(j) ==
    /\ jobs[j].pc = "extracted"
    /\ store' = SaveGraphOf(store, jobs[j].graph, DocumentIdMap)
    /\ jobs' = [jobs EXCEPT ![j] = Job("running", "saved", jobs[j].graph)]
    /\ last' = Quiet
    /\ UNCHANGED <<nodes, edges, adjacency, reverse_adjacency, document_hashes, extraction,
                   batch>>

\* run_extraction: self._update_job(job_id, status="completed", ...)
WorkerComplete(j) ==
    /\ jobs[j].pc = "saved"
    /\ StepJob(j, Job("completed", "done", jobs[j].graph))

\* run_extraction: an exception of a call to the database reaches the outer
\* except, which marks the job failed.
WorkerFail(j) ==
    /\ jobs[j].pc \in {"running", "loaded", "extracted"}
    /\ StepJob(j, Job("failed", "done", jobs[j].graph))

(***************************************************************************)
(* Spec: every operation of the interface, in any order, on ApiNodeIds.     *)
(***************************************************************************)
Next ==
    \/ \E id \in ApiNodeIds : AddNode(id, PlainNode("NOT_STARTED"))
    \/ \E s \in ApiNodeIds, t \in ApiNodeIds, ty \in PlainEdgeTypes : Connect(s, t, ty)
    \/ \E id \in ApiNodeIds, st \in ApiStatuses : UpdateStatus(id, st)
    \/ \E a \in ApiNodeIds, b \in ApiNodeIds : MergeDuplicateNodes(a, b)
    \/ \E p \in DocumentPaths, h \in ContentHashes, o \in ExtractOutcomes :
           ProcessDocument(p, h, o, ApiNodeIds)
    \/ Reload

Spec == Init /\ [][Next]_vars

(***************************************************************************)
(* SpecStatus: nodes, dependency edges and status updates on NodeIds.       *)
(***************************************************************************)
NextStatus ==
    \/ \E id \in NodeIds : AddNode(id, PlainNode("NOT_STARTED"))
    \/ \E s \in NodeIds, t \in NodeIds, ty \in PlainEdgeTypes : Connect(s, t, ty)
    \/ \E id \in NodeIds, st \in CompletionStatus : UpdateStatus(id, st)

SpecStatus == Init /\ [][NextStatus]_vars

(***************************************************************************)
(* SpecMerge: nodes with tags, metadata and source_text, edges and merges.  *)
(***************************************************************************)
NextMerge ==
    \/ \E id \in ApiNodeIds, node \in RichNodes : AddNode(id, node)
    \/ \E s \in ApiNodeIds, t \in ApiNodeIds : Connect(s, t, "DEPENDS_ON")
    \/ \E a \in ApiNodeIds, b \in ApiNodeIds : MergeDuplicateNodes(a, b)

SpecMerge == Init /\ [][NextMerge]_vars

(***************************************************************************)
(* SpecStats: up to MaxStatNodes nodes created one after the other.         *)
(***************************************************************************)
\* graph.create_node(...), the new node taking a fresh id.
CreateNode(node, ids) ==
    /\ FreshIds(G, ids) # {}
    /\ AddNode(NewId(G, ids), node)

NextStats == \E st \in StatStatuses : CreateNode(PlainNode(st), StatNodeIds)

SpecStats == Init /\ [][NextStats]_vars

(***************************************************************************)
(* SpecExtract: calls of extract on one graph, the client free to respond   *)
(* or fail in any way at each request.                                      *)
(***************************************************************************)
NextExtract ==
    \E d \in Documents :
        \E sc \in IF Truthy(d.error) \/ ~IsSuccessful(d) THEN {NoRequests} ELSE Scripts :
            Extract(d, sc, ApiNodeIds)

SpecExtract == Init /\ [][NextExtract]_vars

(***************************************************************************)
(* SpecBatch: batches of two documents through process_directory and        *)
(* through the web service's run_extraction.                                *)
(***************************************************************************)
NextBatch ==
    \E ds \in BatchDocuments, s1 \in SteadyScripts, s2 \in SteadyScripts :
        \/ ProcessDirectory(ds, <<s1, s2>>, NodeIds)
        \/ RunExtraction(ds, <<s1, s2>>, NodeIds)

SpecBatch == Init /\ [][NextBatch]_vars

(***************************************************************************)
(* SpecIncremental: documents processed and reprocessed through one         *)
(* IncrementalExtractor, and extracted directly in between.                 *)
(***************************************************************************)
NextIncremental ==
    \E d \in VersionedDocuments, sc \in SteadyScripts :
        \/ ProcessNewOrChanged(d, sc, NodeIds)
        \/ Extract(d, sc, NodeIds)

SpecIncremental == Init /\ [][NextIncremental]_vars

(***************************************************************************)
(* SpecPriority: node 1 is the node whose priority is asked for; the other  *)
(* nodes are plain, are made to depend on it, and are completed.            *)
(***************************************************************************)
NextPriority ==
    \/ \E node \in PriorityNodes : 1 \notin DOMAIN nodes /\ AddNode(1, node)
    \/ \E id \in PrioNodeIds \ {1} : id \notin DOMAIN nodes /\ AddNode(id, PlainNode("NOT_STARTED"))
    \/ \E s \in PrioNodeIds \ {1} : ConnectWithin(MaxPrioEdges, s, 1, "DEPENDS_ON")
    \/ \E id \in DOMAIN nodes \ {1} : nodes[id].status # "COMPLETED" /\ UpdateStatus(id, "COMPLETED")

SpecPriority == Init /\ [][NextPriority]_vars

(***************************************************************************)
(* SpecRoutes: a stored graph whose statuses are changed from outside, by   *)
(* the command line and by the three web routes.                            *)
(***************************************************************************)
RouteStatuses == {"blocked", "completed"}

NextRoutes ==
    \/ \E id \in NodeIds : AddNode(id, PlainNode("NOT_STARTED"))
    \/ \E s \in NodeIds, t \in NodeIds : Connect(s, t, "DEPENDS_ON")
    \/ \E id \in NodeIds : WebMarkComplete(id)
    \/ \E id \in NodeIds, st \in RouteStatuses : WebUpdateStatus(id, st)
    \/ \E id \in NodeIds, st \in RouteStatuses : WebUpdateNode(id, st)
    \/ \E m \in SUBSET DOMAIN nodes : CliMarkComplete(m)

SpecRoutes == Init /\ [][NextRoutes]_vars

(***************************************************************************)
(* SpecPlaceholders: document nodes, real and placeholder, one edge between *)
(* them, and placeholder resolution run any number of times.                *)
(***************************************************************************)
NextPlaceholders ==
    \/ \E node \in DocumentNodes : CreateLater(node, ResolveNodeIds)
    \/ \E s \in DOMAIN nodes, t \in DOMAIN nodes : ConnectWithin(1, s, t, "REQUIRES")
    \/ ResolvePlaceholdersCall

SpecPlaceholders == Init /\ [][NextPlaceholders]_vars

(***************************************************************************)
(* SpecResolveBatch: batches through the three entry points, the documents  *)
(* yielding placeholders, real document nodes and plain requirements.       *)
(***************************************************************************)
NextResolveBatch ==
    \/ \E s1 \in ItemScripts, s2 \in ItemScripts :
           /\ Cardinality(LaterIds(G, ResolveNodeIds)) >= 2
           /\ \/ ProcessDirectory(TwoDocuments, <<s1, s2>>, ResolveNodeIds)
              \/ RunExtraction(TwoDocuments, <<s1, s2>>, ResolveNodeIds)
    \/ \E d \in VersionedDocuments, sc \in ItemScripts :
           /\ LaterIds(G, ResolveNodeIds) # {}
           /\ ProcessNewOrChanged(d, sc, ResolveNodeIds)

SpecResolveBatch == Init /\ [][NextResolveBatch]_vars

(***************************************************************************)
(* SpecConditions: condition nodes and other nodes, conditional_on and      *)
(* requires edges between them, and evaluate_conditions run at any time.    *)
(***************************************************************************)
NextConditions ==
    \/ \E node \in ConditionalNodes : CreateLater(node, NodeIds)
    \/ \E s \in DOMAIN nodes, t \in DOMAIN nodes, ty \in {"CONDITIONAL_ON", "REQUIRES"} :
           Connect(s, t, ty)
    \/ EvaluateConditionsCall

SpecConditions == Init /\ [][NextConditions]_vars

(***************************************************************************)
(* SpecPath: up to MaxPathNodes nodes, dependency edges among the first     *)
(* four, and the first nodes completed.                                     *)
(***************************************************************************)
NextPath ==
    \/ CreateLater(PlainNode("NOT_STARTED"), PathNodeIds)
    \/ \E e \in PathEdges :
           /\ e[1] \in DOMAIN nodes /\ e[2] \in DOMAIN nodes
           /\ ConnectWithin(MaxPathEdges, e[1], e[2], "DEPENDS_ON")
    \/ \E id \in DOMAIN nodes \cap ApiNodeIds :
           nodes[id].status # "COMPLETED" /\ UpdateStatus(id, "COMPLETED")

SpecPath == Init /\ [][NextPath]_vars

(***************************************************************************)
(* SpecStore: nodes with all their fields, edges and merges in memory, and  *)
(* the graph saved to and loaded from the database at any time.  A new node *)
(* gets an id that no row has.                                              *)
(***************************************************************************)
NextStore ==
    \/ \E node \in StoredNodes : CreateLater(node, NodeIds \ DOMAIN store.nodes)
    \/ \E s \in DOMAIN nodes, t \in DOMAIN nodes :
           s # t /\ ConnectWithin(MaxStoreEdges, s, t, "REQUIRES")
    \/ \E a \in DOMAIN nodes, b \in DOMAIN nodes : a # b /\ MergeDuplicateNodes(a, b)
    \/ \E document_id_map \in DocumentIdMaps : SaveGraph(document_id_map)
    \/ LoadGraph

SpecStore == Init /\ [][NextStore]_vars

(***************************************************************************)
(* SpecTodo: titled nodes, dependency edges between them, and nodes set to  *)
(* completed, not applicable and blocked.                                   *)
(***************************************************************************)
NextTodo ==
    \/ \E node \in TodoNodes : CreateLater(node, NodeIds)
    \/ \E s \in DOMAIN nodes, t \in DOMAIN nodes : s # t /\ Connect(s, t, "DEPENDS_ON")
    \/ \E id \in DOMAIN nodes, st \in {"COMPLETED", "NOT_APPLICABLE", "BLOCKED"} :
           nodes[id].status = "NOT_STARTED" /\ UpdateStatus(id, st)

SpecTodo == Init /\ [][NextTodo]_vars

(***************************************************************************)
(* SpecItems: extract on documents whose items refer to each other, to      *)
(* nodes of earlier documents and to nothing.                               *)
(***************************************************************************)
NextItems ==
    \E i \in DOMAIN TwoDocuments, sc \in ReferenceScripts :
        /\ Cardinality(LaterIds(G, ResolveNodeIds)) >= 2
        /\ Extract(TwoDocuments[i], sc, ResolveNodeIds)

SpecItems == Init /\ [][NextItems]_vars

(***************************************************************************)
(* SpecWorkers: start_processing called at any time for one project, and    *)
(* the threads it started taking their steps in any order.                  *)
(***************************************************************************)
NextWorkers ==
    \/ StartProcessing
    \/ \E j \in DOMAIN jobs :
           \/ WorkerRunning(j)
           \/ WorkerNoDocuments(j)
           \/ WorkerLoad(j)
           \/ \E sc \in WorkerScripts :
                  WorkerExtract(j, <<Document("doc1", "text", NoneVal)>>, <<sc>>)
           \/ WorkerSave(j)
           \/ WorkerComplete(j)
           \/ WorkerFail(j)

SpecWorkers == Init /\ [][NextWorkers]_vars

(***************************************************************************)
(* SpecSessions: documents processed incrementally, the graph saved after   *)
(* every call, and the project created again at any time.                   *)
(***************************************************************************)
NextSessions ==
    \/ \E d \in VersionedDocuments, sc \in SteadyScripts : ProcessNewOrChanged(d, sc, NodeIds)
    \/ NewSession

SpecSessions == Init /\ [][NextSessions]_vars

(***************************************************************************)
(* The dependency relation as the edge list states it, without the indices. *)
(***************************************************************************)
DependencyEdges(g) == {i \in 1..Len(g.edges) : g.edges[i].type \in DependencyTypes}

\* The present nodes that node n has a dependency edge to.
EdgeDependencies(g, n) ==
    {g.edges[i].target_id : i \in {j \in DependencyEdges(g) : g.edges[j].source_id = n}}
        \cap DOMAIN g.nodes

\* The present nodes that have a dependency edge to node n.
EdgeDependents(g, n) ==
    {g.edges[i].source_id : i \in {j \in DependencyEdges(g) : g.edges[j].target_id = n}}
        \cap DOMAIN g.nodes

\* How often x occurs in the list s.
Count(s, x) == Cardinality({i \in 1..Len(s) : s[i] = x})

(***************************************************************************)
(* C1.  After any sequence of add_node, connect, update_status,             *)
(* merge_duplicate_nodes, reprocessing and reload, get_dependencies(n) and  *)
(* get_dependents(n) return, for every id n, only nodes that are present,   *)
(* and no listed edge id is missing from the edge dict (no KeyError).       *)
(***************************************************************************)
C1_OnlyPresentNodes ==
    \A n \in ApiNodeIds :
        /\ ~EdgeLookupFaults(G, n)
        /\ Range(GetDependencies(G, n)) \subseteq DOMAIN nodes
        /\ Range(GetDependents(G, n)) \subseteq DOMAIN nodes

\* Reprocessing has just deleted the target of a dependency edge whose source
\* is still present: the edge is listed and its target is not returned.
C1_Witness ==
    /\ last.op = "process_document"
    /\ \E i \in DependencyEdges(G) :
           /\ edges[i].target_id \in last.out
           /\ edges[i].source_id \in DOMAIN nodes
           /\ i \in Range(GetOutgoingEdges(G, edges[i].source_id))
           /\ edges[i].target_id \notin Range(GetDependencies(G, edges[i].source_id))

(***************************************************************************)
(* C2.  update_status(n, s) changes the status of no node other than n,     *)
(* except that for s = completed a direct dependent of n may go from        *)
(* blocked to not_started: no other node becomes completed, and no node     *)
(* that is not a direct dependent of n changes.                             *)
(***************************************************************************)
C2_StatusFrame ==
    \A n \in NodeIds, s \in CompletionStatus :
        LET g1 == UpdateStatusOf(G, n, s)
        IN  /\ DOMAIN g1.nodes = DOMAIN nodes
            /\ \A m \in DOMAIN nodes \ {n} :
                   g1.nodes[m].status # nodes[m].status
                       => /\ s = "COMPLETED"
                          /\ m \in EdgeDependents(G, n)
                          /\ nodes[m].status = "BLOCKED"
                          /\ g1.nodes[m].status = "NOT_STARTED"

\* update_status(a, completed) has just unblocked a direct dependent b, and a
\* node c that depends on b but not on a is still blocked.
C2_Witness ==
    /\ last.op = "update_status"
    /\ last.ret = "node"
    /\ \E b \in last.out, c \in DOMAIN nodes \ {last.a} :
           /\ nodes[last.a].status = "COMPLETED"
           /\ nodes[b].status = "NOT_STARTED"
           /\ b \in EdgeDependents(G, last.a)
           /\ c \in EdgeDependents(G, b)
           /\ c \notin EdgeDependents(G, last.a)
           /\ nodes[c].status = "BLOCKED"

(***************************************************************************)
(* C3.  After update_status(n, completed), every direct dependent d of n    *)
(* (another node with a dependency edge into n) that was blocked before     *)
(* the call is not_started if all of d's present direct dependencies are    *)
(* completed, and is still blocked otherwise.                               *)
(***************************************************************************)
C3_DependentsUnblocked ==
    \A n \in DOMAIN nodes :
        LET g1 == UpdateStatusOf(G, n, "COMPLETED")
        IN  \A d \in EdgeDependents(G, n) \ {n} :
                nodes[d].status = "BLOCKED"
                    => g1.nodes[d].status =
                           IF \A x \in EdgeDependencies(g1, d) : g1.nodes[x].status = "COMPLETED"
                           THEN "NOT_STARTED" ELSE "BLOCKED"

(***************************************************************************)
(* C4.  For two distinct present nodes A and B, after                       *)
(* merge_duplicate_nodes(A, B) no edge has source_id or target_id B, A's    *)
(* tags are the union of the tags A and B had, and there is exactly one     *)
(* node less.                                                               *)
(***************************************************************************)
C4_MergeRemovesDropped ==
    \A a \in DOMAIN nodes, b \in DOMAIN nodes :
        a # b =>
            LET g1 == MergeDuplicateNodesOf(G, a, b)
            IN  /\ \A i \in 1..Len(g1.edges) :
                       g1.edges[i].source_id # b /\ g1.edges[i].target_id # b
                /\ g1.nodes[a].tags = nodes[a].tags \cup nodes[b].tags
                /\ Cardinality(DOMAIN g1.nodes) = Cardinality(DOMAIN nodes) - 1

(***************************************************************************)
(* C5.  merge_duplicate_nodes(A, A) is rejected or does nothing: A is still *)
(* present, and nodes, edges and both indices are as before.                *)
(***************************************************************************)
C5_SelfMergeNoOp ==
    \A a \in DOMAIN nodes :
        LET g1 == MergeDuplicateNodesOf(G, a, a)
        IN  a \in DOMAIN g1.nodes /\ g1 = G

(***************************************************************************)
(* C6.  After merge_duplicate_nodes(keep, drop) the kept node's metadata    *)
(* has every key of both nodes, a key of both keeps the kept node's value,  *)
(* and source_text is the dropped node's only when the kept node's was      *)
(* empty.                                                                   *)
(***************************************************************************)
C6_KeepWins ==
    \A keep \in DOMAIN nodes, drop \in DOMAIN nodes :
        keep # drop =>
            LET after == MergeDuplicateNodesOf(G, keep, drop).nodes[keep]
            IN  /\ DOMAIN after.metadata = DOMAIN nodes[keep].metadata \cup DOMAIN nodes[drop].metadata
                /\ \A k \in DOMAIN nodes[keep].metadata :
                       after.metadata[k] = nodes[keep].metadata[k]
                /\ after.source_text # nodes[keep].source_text
                       => /\ ~Truthy(nodes[keep].source_text)
                          /\ after.source_text = nodes[drop].source_text

(***************************************************************************)
(* C7.  In every reachable state both indices are what the edge list gives: *)
(* every edge id is listed exactly once in the forward index of its source  *)
(* and exactly once in the reverse index of its target, and every id listed *)
(* for n belongs to an edge whose source (target) is n.                     *)
(***************************************************************************)
C7_IndicesMatchEdges ==
    /\ \A i \in 1..Len(edges) :
           /\ Count(IndexGet(adjacency, edges[i].source_id), i) = 1
           /\ Count(IndexGet(reverse_adjacency, edges[i].target_id), i) = 1
    /\ \A n \in DOMAIN adjacency : \A i \in Range(adjacency[n]) :
           i \in 1..Len(edges) /\ edges[i].source_id = n
    /\ \A n \in DOMAIN reverse_adjacency : \A i \in Range(reverse_adjacency[n]) :
           i \in 1..Len(edges) /\ edges[i].target_id = n

(***************************************************************************)
(* C8.  from_dict(to_dict(G)) has the nodes and edges of G with the same    *)
(* field values, and get_dependencies and get_dependents return the same    *)
(* node sets for every id in both graphs.                                   *)
(***************************************************************************)
C8_RoundTrip ==
    LET g1 == FromDict(ToDict(G))
    IN  /\ g1.nodes = nodes
        /\ g1.edges = edges
        /\ \A n \in ApiNodeIds :
               /\ Range(GetDependencies(g1, n)) = Range(GetDependencies(G, n))
               /\ Range(GetDependents(g1, n)) = Range(GetDependents(G, n))

(***************************************************************************)
(* C9.  get_actionable_items returns exactly the nodes whose status is      *)
(* not_started or in_progress and whose every present direct dependency is  *)
(* completed or not_applicable; so a node with a blocked dependency is not  *)
(* returned.                                                                *)
(***************************************************************************)
C9_ActionableExactly ==
    GetActionableItems(G) =
        {n \in DOMAIN nodes :
            /\ nodes[n].status \in {"NOT_STARTED", "IN_PROGRESS"}
            /\ \A d \in EdgeDependencies(G, n) :
                   nodes[d].status \in {"COMPLETED", "NOT_APPLICABLE"}}

(***************************************************************************)
(* C10.  get_completion_stats: the by_status counts sum to total_nodes,     *)
(* applicable_items is total_nodes minus the not_applicable nodes, and      *)
(* completion_percentage is 0 when applicable_items is 0, is never above    *)
(* 100, and otherwise is completed * 100 / applicable_items rounded to one  *)
(* decimal place (at most half a tenth away from the quotient).             *)
(***************************************************************************)
C10_StatsRounded ==
    LET st == GetCompletionStats(G)
        NotApplicable == Cardinality({n \in DOMAIN nodes : nodes[n].status = "NOT_APPLICABLE"})
        Completed == Cardinality({n \in DOMAIN nodes : nodes[n].status = "COMPLETED"})
        diff == st.completion_percentage * st.applicable_items - Completed * 1000
    IN  /\ st.total_nodes = Cardinality(DOMAIN nodes)
        /\ st.by_status["not_started"] + st.by_status["in_progress"] + st.by_status["completed"]
               + st.by_status["blocked"] + st.by_status["not_applicable"] = st.total_nodes
        /\ st.applicable_items = st.total_nodes - NotApplicable
        /\ st.completed_items = Completed
        /\ st.completion_percentage \in 0..1000
        /\ st.applicable_items = 0 => st.completion_percentage = 0
        /\ st.applicable_items > 0 => 2 * diff <= st.applicable_items /\ -2 * diff <= st.applicable_items

\* C10 as stated: the percentage is exactly completed * 100 / applicable_items.
C10_StatsExact ==
    LET st == GetCompletionStats(G)
    IN  /\ st.by_status["not_started"] + st.by_status["in_progress"] + st.by_status["completed"]
               + st.by_status["blocked"] + st.by_status["not_applicable"] = st.total_nodes
        /\ st.applicable_items = st.total_nodes - st.by_status["not_applicable"]
        /\ st.completion_percentage \in 0..1000
        /\ st.applicable_items = 0 => st.completion_percentage = 0
        /\ st.applicable_items > 0
               => st.completion_percentage * st.applicable_items = st.completed_items * 1000

\* Ten nodes, two not_applicable and four completed: 50.0 percent of 8.
C10_Witness ==
    LET st == GetCompletionStats(G)
    IN  /\ st.total_nodes = 10
        /\ st.by_status["not_applicable"] = 2
        /\ st.completed_items = 4
        /\ st.applicable_items = 8
        /\ st.completion_percentage = 500

(***************************************************************************)
(* C11.  update_status with an id that is not in the graph, and             *)
(* merge_duplicate_nodes where either id is not in the graph, return None   *)
(* and leave nodes, edges and both indices as they were; no node is         *)
(* created for the unknown id.                                              *)
(***************************************************************************)
C11_NotFoundNoOp ==
    /\ \A n \in ApiNodeIds \ DOMAIN nodes, s \in CompletionStatus :
           /\ UpdateStatusReturn(G, n) = "none"
           /\ UpdateStatusOf(G, n, s) = G
    /\ \A a \in ApiNodeIds, b \in ApiNodeIds :
           (a \notin DOMAIN nodes \/ b \notin DOMAIN nodes)
               => /\ MergeReturn(G, a, b) = "none"
                  /\ MergeDuplicateNodesOf(G, a, b) = G
    /\ last.op = "update_status" /\ last.ret = "none" => last.a \notin DOMAIN nodes
    /\ last.op = "merge_duplicate_nodes" /\ last.ret = "none"
           => last.a \notin DOMAIN nodes \/ last.b \notin DOMAIN nodes

\* update_status has just returned None for an id used by an edge of a
\* graph that has another node.
C11_Witness ==
    /\ last.op = "update_status" /\ last.ret = "none"
    /\ last.a \notin DOMAIN nodes
    /\ nodes # EmptyMap
    /\ \E i \in 1..Len(edges) : edges[i].target_id = last.a

\* A request that raised an exception whose text holds a retryable marker.
TransientFailure(outcome) == outcome.kind = "raise" /\ Retryable(outcome)

(***************************************************************************)
(* C12.  If the LLM call fails with a transient-marker error on the first   *)
(* two attempts and returns a valid response on the third, extract issues   *)
(* exactly 3 LLM requests and returns a result with no error whose nodes    *)
(* were added to the graph.                                                 *)
(***************************************************************************)
C12_TwoTransientThenValid ==
    LET r == extraction.result
        d == extraction.document
        sc == extraction.script
    IN  (/\ sc # <<>> /\ ~Truthy(d.error) /\ IsSuccessful(d)
         /\ TransientFailure(sc[1]) /\ TransientFailure(sc[2])
         /\ sc[3] = Response("valid"))
            => /\ r.requests = 3
               /\ r.error = NoneVal /\ ~r.raised
               /\ r.nodes_created # {}
               /\ r.nodes_created \subseteq DOMAIN nodes
               /\ \A n \in r.nodes_created : nodes[n].source_document = d.path

\* A call that met a timeout-class error and a ValueError with marker text
\* before the valid response.
C12_Witness ==
    /\ extraction.script = <<Raise("APIError", {"429"}), Raise("ValueError", {"429"}), Response("valid")>>
    /\ IsSuccessful(extraction.document)
    /\ extraction.result.requests = 3
    /\ extraction.result.nodes_created \subseteq DOMAIN nodes
    /\ extraction.result.nodes_created # {}

\* A request whose response is not JSON or has no content.
UnusableResponse(outcome) ==
    outcome.kind = "response" /\ outcome.content \in {"malformed", "none"}

(***************************************************************************)
(* C13.  One call of extract issues at most 3 LLM requests, whatever the    *)
(* failures.  When every attempt yields malformed JSON or an empty          *)
(* response, exactly 3 requests are issued, the waits are 2s before the     *)
(* 2nd and 4s before the 3rd (none before the 1st), and the call returns a  *)
(* result carrying an error.                                                *)
(***************************************************************************)
C13_ThreeAttemptsBackoff ==
    LET r == extraction.result
        d == extraction.document
        sc == extraction.script
    IN  /\ r.requests <= 3
        /\ r.requests > 0 => Len(r.sleeps) = r.requests - 1
        /\ (/\ sc # <<>> /\ ~Truthy(d.error) /\ IsSuccessful(d)
            /\ \A i \in 1..3 : UnusableResponse(sc[i]))
               => /\ r.requests = 3
                  /\ r.sleeps = <<2, 4>>
                  /\ r.error # NoneVal /\ ~r.raised
                  /\ r.nodes_created = {}

\* A call that got malformed JSON, then an empty response, then malformed
\* JSON again.
C13_Witness ==
    /\ extraction.script = <<Response("malformed"), Response("none"), Response("malformed")>>
    /\ IsSuccessful(extraction.document)
    /\ extraction.result.requests = 3
    /\ extraction.result.error = "Failed to parse LLM response as JSON"

(***************************************************************************)
(* C14.  When a request raises an exception that is neither a malformed-    *)
(* JSON nor an empty-response failure and whose text has no transient       *)
(* marker, extract issues no further request and returns with that          *)
(* exception as the result's error, whatever the exception's class (a       *)
(* ValueError raised by the client included): raised at the first request,  *)
(* the call ends after exactly one request.                                 *)
(***************************************************************************)
C14_OtherExceptionTerminal ==
    LET r == extraction.result
        sc == extraction.script
    IN  \A i \in 1..r.requests :
            sc[i].kind = "raise" /\ ~Retryable(sc[i])
                => r.requests = i /\ r.error # NoneVal /\ ~r.raised

(***************************************************************************)
(* C15.  For a document that carries an error or has empty or blank text,   *)
(* extract issues no LLM request, leaves the graph unchanged, creates no    *)
(* nodes, and returns a result whose error is the document's own error, or  *)
(* the fixed "No content extracted" when the document has no error          *)
(* message.                                                                 *)
(***************************************************************************)
C15_UnreadableRejected ==
    \A d \in Documents, sc \in {NoRequests, [i \in 1..max_retries |-> Response("valid")]} :
        (d.error # NoneVal \/ Strip(d.text) = "")
            => LET call == ExtractOf(G, d, sc, ApiNodeIds)
               IN  /\ call.graph = G
                   /\ call.result.requests = 0
                   /\ call.result.nodes_created = {}
                   /\ ~call.result.raised
                   /\ call.result.error = IF Truthy(d.error) THEN d.error
                                          ELSE "No content extracted"

\* extract has just been called with a blank document on a graph that
\* already has a node, and returned the fixed message without a request.
C15_Witness ==
    /\ extraction.document = Document("doc1", " ", NoneVal)
    /\ extraction.result.requests = 0
    /\ extraction.result.error = "No content extracted"
    /\ nodes # EmptyMap

\* Document i of the latest batch is reported as failed: by an error result
\* in the results of process_directory, by an entry of the error list of
\* run_extraction.
Reported(i) ==
    IF batch.op = "process_directory"
    THEN i <= Len(batch.results) /\ batch.results[i].error # NoneVal
    ELSE batch.documents[i].path \in Range(batch.errors)

(***************************************************************************)
(* C16.  In a batch (process_directory, run_extraction) a failure of one    *)
(* document's extraction, returned as a result error or raised while the    *)
(* response is turned into nodes, never keeps the remaining documents from  *)
(* being processed, and every failed document is reported in the batch's    *)
(* results or error list.                                                   *)
(***************************************************************************)
C16_BatchContinues ==
    batch.op # "none"
        => /\ ~batch.raised
           /\ Len(batch.attempted) = Len(batch.documents)
           /\ \A i \in 1..Len(batch.attempted) :
                  batch.attempted[i].error # NoneVal => Reported(i)

(***************************************************************************)
(* C17.  Within one IncrementalExtractor, process_new_or_changed issues no  *)
(* LLM request and changes nothing in the graph for a document whose text   *)
(* hash is the one recorded for its path; for a document whose hash         *)
(* differs, every node whose source_document is its path is removed before  *)
(* extract is called, so that afterwards every node with that provenance    *)
(* was created by the latest extraction.                                    *)
(***************************************************************************)
C17_SkipOrReplace ==
    \A d \in VersionedDocuments, sc \in SteadyScripts :
        (FreshIds(G, NodeIds) # {} /\ d.path \in DOMAIN document_hashes)
            => LET h == HashContent(d.text)
                   run == ProcessNewOrChangedOf(G, document_hashes, d, h, sc, NodeIds)
               IN  IF document_hashes[d.path] = h
                   THEN /\ run.skipped
                        /\ run.result.requests = 0
                        /\ run.graph = G
                        /\ run.document_hashes = document_hashes
                   ELSE /\ run.deleted = GetNodesByDocument(G, d.path)
                        /\ run.result.requests > 0
                        /\ GetNodesByDocument(run.graph, d.path) = run.result.nodes_created
                        /\ run.result.nodes_created \cap DOMAIN nodes = {}

\* A changed document has just been reprocessed: its old node is gone and
\* the only node of its path is the one the extraction created.
C17_Witness ==
    /\ last.op = "process_new_or_changed" /\ last.ret = "processed"
    /\ last.out # {}
    /\ extraction.result.nodes_created # {}
    /\ GetNodesByDocument(G, extraction.document.path) = extraction.result.nodes_created
    /\ document_hashes[extraction.document.path] = HashContent(extraction.document.text)

(***************************************************************************)
(* C18.  _determine_priority applies its rules in a fixed order, the first  *)
(* match wins: an exclusion keyword in title, description or source_text    *)
(* gives CRITICAL even when is_required is false; otherwise is_required     *)
(* true gives HIGH, also for signature and deadline nodes; otherwise type   *)
(* signature or deadline gives CRITICAL; otherwise type document gives      *)
(* HIGH.                                                                    *)
(***************************************************************************)
C18_PriorityRuleOrder ==
    \A n \in DOMAIN nodes :
        LET node == nodes[n]
            keyword == \/ Title(node) = "Ausschlusskriterium"
                       \/ Description(node) = "Ausschlusskriterium"
                       \/ node.source_text = "Ausschlusskriterium"
            required == node.metadata \in {[k \in {"is_required"} |-> "true"]}
            p == DeterminePriority(G, n)
        IN  /\ keyword => p = "CRITICAL"
            /\ ~keyword /\ required => p = "HIGH"
            /\ ~keyword /\ ~required /\ node.type \in {"SIGNATURE", "DEADLINE"} => p = "CRITICAL"
            /\ ~keyword /\ ~required /\ node.type = "DOCUMENT" => p = "HIGH"

\* A node whose description has the keyword and whose is_required is false
\* is CRITICAL, and three nodes depend on it.
C18_Witness ==
    /\ 1 \in DOMAIN nodes
    /\ nodes[1].description = "Ausschlusskriterium"
    /\ nodes[1].metadata = [k \in {"is_required"} |-> "false"]
    /\ nodes[1].type = "DOCUMENT"
    /\ DeterminePriority(G, 1) = "CRITICAL"
    /\ Len(edges) = 3

(***************************************************************************)
(* C19.  A node that matches none of the keyword, is_required and type      *)
(* rules is given priority HIGH exactly when it has 3 or more unfinished    *)
(* direct dependents; completed dependents do not count.                    *)
(***************************************************************************)
C19_UnfinishedDependents ==
    \A n \in DOMAIN nodes :
        LET node == nodes[n]
            unfinished == {d \in EdgeDependents(G, n) : nodes[d].status # "COMPLETED"}
        IN  (/\ ~HasCriticalKeyword(node) /\ ~IsRequired(node)
             /\ node.type \notin {"SIGNATURE", "DEADLINE", "DOCUMENT"})
                => (DeterminePriority(G, n) = "HIGH" <=> Cardinality(unfinished) >= 3)

(***************************************************************************)
(* C20.  Every status change triggered from outside (CLI mark_complete,     *)
(* PUT todos/<id>/complete, PUT todos/<id>/status, PUT nodes/<id>) goes     *)
(* through update_status: right after a node was marked completed, no       *)
(* direct dependent of it is stored as blocked with all of its              *)
(* dependencies completed.                                                  *)
(***************************************************************************)
C20_ExternalCompletionPropagates ==
    (/\ last.op \in {"mark_complete", "todos/complete", "todos/status", "nodes"}
     /\ last.ret = "done"
     /\ nodes[last.a].status = "COMPLETED")
        => \A d \in EdgeDependents(G, last.a) \ {last.a} :
               nodes[d].status = "BLOCKED"
                   => \E x \in EdgeDependencies(G, d) : nodes[x].status # "COMPLETED"

(***************************************************************************)
(* C21.  resolve_placeholders is idempotent: run a second time on the graph *)
(* it just produced it changes nothing (no further node is merged away or   *)
(* removed, tags and edges are unchanged), for every graph of               *)
(* placeholder-tagged nodes and real document nodes.                        *)
(***************************************************************************)
C21_ResolveIdempotent ==
    LET g1 == ResolvePlaceholders(G)
    IN  ResolvePlaceholders(g1) = g1

\* Every node of the graph mid (the graph when the last extract of a batch
\* has returned) that is tagged as placeholder and whose title matches a real
\* document node of mid is gone from the graph fin (the graph when the batch
\* returns).
PlaceholdersMerged(mid, fin) ==
    \A p \in DOMAIN mid.nodes, d \in DOMAIN mid.nodes :
        (/\ IsPlaceholder(mid.nodes[p])
         /\ mid.nodes[d].type = "DOCUMENT" /\ ~IsPlaceholder(mid.nodes[d])
         /\ TitlesMatch(Lower(Title(mid.nodes[p])), Lower(Title(mid.nodes[d]))))
            => p \notin DOMAIN fin.nodes

(***************************************************************************)
(* C22.  In every batch entry point (process_directory,                     *)
(* process_new_or_changed, run_extraction) placeholder resolution runs      *)
(* after the last document's extract and before the batch returns or the    *)
(* graph is saved: a placeholder whose title matches a real document node   *)
(* is merged into it by the end of the batch.                               *)
(***************************************************************************)
C22_ResolvedAtBatchEnd ==
    /\ \A s1 \in ItemScripts, s2 \in ItemScripts :
           Cardinality(LaterIds(G, ResolveNodeIds)) >= 2
               => LET start == BatchRun(G, <<>>, <<>>, <<>>, FALSE)
                      scripts == <<s1, s2>>
                  IN  /\ PlaceholdersMerged(
                             ProcessDirectoryLoop(start, TwoDocuments, scripts, 1, ResolveNodeIds).graph,
                             ProcessDirectoryOf(G, TwoDocuments, scripts, ResolveNodeIds).graph)
                      /\ PlaceholdersMerged(
                             RunExtractionLoop(start, TwoDocuments, scripts, 1, ResolveNodeIds).graph,
                             RunExtractionOf(G, TwoDocuments, scripts, ResolveNodeIds).graph)
    /\ \A d \in VersionedDocuments, sc \in ItemScripts :
           LaterIds(G, ResolveNodeIds) # {}
               => LET run == ProcessNewOrChangedOf(G, document_hashes, d, HashContent(d.text),
                                                   sc, ResolveNodeIds)
                  IN  ~run.skipped => PlaceholdersMerged(run.graph, run.graph)

\* Node n has a conditional_on edge into a present condition node whose
\* condition_met is False.
ConditionalOnFalse(g, n) ==
    \E i \in 1..Len(g.edges) :
        /\ g.edges[i].type = "CONDITIONAL_ON"
        /\ g.edges[i].source_id = n
        /\ HasNode(g, g.edges[i].target_id)
        /\ g.nodes[g.edges[i].target_id].type = "CONDITION"
        /\ ConditionMet(g.nodes[g.edges[i].target_id]) = "False"

(***************************************************************************)
(* C23.  After evaluate_conditions returns, every present node that has a   *)
(* conditional_on edge into a condition node whose condition_met is         *)
(* explicitly false has status not_applicable, for any number of            *)
(* conditions the node is conditional on and any values of the other        *)
(* conditions.                                                              *)
(***************************************************************************)
C23_FalseConditionForces ==
    LET g1 == EvaluateConditions(G)
    IN  \A n \in DOMAIN g1.nodes :
            ConditionalOnFalse(g1, n) => g1.nodes[n].status = "NOT_APPLICABLE"

(***************************************************************************)
(* C24.  evaluate_conditions is idempotent: with the condition facts        *)
(* unchanged, calling it twice in a row leaves every node with the status   *)
(* it has after one call, also for nodes conditional on several conditions  *)
(* with differing condition_met values.                                     *)
(***************************************************************************)
C24_EvaluateIdempotent ==
    LET g1 == EvaluateConditions(G)
    IN  /\ EvaluateConditions(g1) = g1
        /\ last.op = "evaluate_conditions" => g1 = G

\* evaluate_conditions has just changed the status of a node that is
\* conditional on two conditions, one false and one not.
C24_Witness ==
    /\ last.op = "evaluate_conditions"
    /\ \E n \in last.out, i \in 1..Len(edges), j \in 1..Len(edges) :
           /\ edges[i].type = "CONDITIONAL_ON" /\ edges[j].type = "CONDITIONAL_ON"
           /\ edges[i].source_id = n /\ edges[j].source_id = n
           /\ edges[i].target_id \in DOMAIN nodes /\ edges[j].target_id \in DOMAIN nodes
           /\ nodes[edges[i].target_id].type = "CONDITION"
           /\ nodes[edges[j].target_id].type = "CONDITION"
           /\ ConditionMet(nodes[edges[i].target_id]) = "False"
           /\ ConditionMet(nodes[edges[j].target_id]) = "True"

(***************************************************************************)
(* C25.  get_critical_path terminates on every finite graph, also when the  *)
(* dependency edges form cycles or self-loops (every call of                *)
(* _get_transitive_dependents visits present nodes only, each at most once, *)
(* and makes at most one call per dependency edge besides the first), and   *)
(* returns at most 10 nodes, none of which is completed.                    *)
(***************************************************************************)
C25_CriticalPathTerminates ==
    /\ \A n \in DOMAIN nodes :
           LET run == TransitiveDependents(G, n, {})
           IN  /\ run.visited \subseteq DOMAIN nodes
               /\ run.calls <= 1 + Len(edges)
    /\ LET path == GetCriticalPath(G)
       IN  /\ Len(path) <= 10
           /\ \A i \in 1..Len(path) :
                  path[i] \in DOMAIN nodes /\ nodes[path[i]].status # "COMPLETED"

\* Eleven nodes, one of them completed, a cycle through 1, 4 and 2 and a
\* self-loop at 1: ten nodes are returned.
C25_Witness ==
    /\ Cardinality(DOMAIN nodes) = 11
    /\ nodes[2].status = "COMPLETED"
    /\ {Edge(2, 1, "DEPENDS_ON"), Edge(4, 2, "DEPENDS_ON"), Edge(1, 4, "DEPENDS_ON"),
        Edge(1, 1, "DEPENDS_ON")} \subseteq Range(edges)
    /\ LET path == GetCriticalPath(G)
       IN  Len(path) = 10 /\ 2 \notin Range(path)

\* The present nodes reachable from the nodes of the set from by one or more
\* reversed dependency edges, found as the least fixed point over the edge
\* list.
RECURSIVE DependentsClosure(_, _)
DependentsClosure(g, found) ==
    LET more == found \cup UNION {EdgeDependents(g, m) : m \in found}
    IN  IF more = found THEN found ELSE DependentsClosure(g, more)

ReachableDependents(g, n) == DependentsClosure(g, EdgeDependents(g, n))

(***************************************************************************)
(* C28.  For every non-completed node n the count get_critical_path ranks   *)
(* by is the number of present nodes reachable from n through one or more   *)
(* reversed dependency edges (n itself counted only when it lies on a       *)
(* cycle), also in diamonds and cycles; the returned list is ordered by     *)
(* non-increasing count and has length min(10, number of non-completed      *)
(* nodes).                                                                  *)
(***************************************************************************)
C28_CountsTransitiveDependents ==
    LET path == GetCriticalPath(G)
        open == {n \in DOMAIN nodes : nodes[n].status # "COMPLETED"}
    IN  /\ \A n \in open :
               /\ TransitiveDependents(G, n, {}).dependents = ReachableDependents(G, n)
               /\ BlockingCount(G, n) = Cardinality(ReachableDependents(G, n))
        /\ \A i \in 1..Len(path) - 1 : BlockingCount(G, path[i]) >= BlockingCount(G, path[i + 1])
        /\ Len(path) = IF Cardinality(open) < 10 THEN Cardinality(open) ELSE 10
        /\ Range(path) \subseteq open
        /\ \A n \in open \ Range(path), m \in Range(path) : BlockingCount(G, n) <= BlockingCount(G, m)

\* The diamond: node 4 depends on node 1 over 2 and over 3 and is counted
\* once; node 1 has three transitive dependents and comes first, a node
\* outside has none.
C28_Witness ==
    /\ Range(edges) = {Edge(2, 1, "DEPENDS_ON"), Edge(3, 1, "DEPENDS_ON"),
                       Edge(4, 2, "DEPENDS_ON"), Edge(4, 3, "DEPENDS_ON")}
    /\ 5 \in DOMAIN nodes
    /\ \A n \in 1..4 : nodes[n].status # "COMPLETED"
    /\ BlockingCount(G, 1) = 3 /\ BlockingCount(G, 2) = 1 /\ BlockingCount(G, 4) = 0
    /\ BlockingCount(G, 5) = 0
    /\ GetCriticalPath(G)[1] = 1

(***************************************************************************)
(* C26: save_graph followed by load_graph returns a graph with the same     *)
(* node set, the same edges and the same field values as the graph saved    *)
(* (condition_met, notes, source_document and status among them), also when *)
(* the database holds rows of an earlier save and nodes have since been     *)
(* merged away in memory.  The documents of the nodes are all in the        *)
(* document_id_map given.                                                   *)
(***************************************************************************)
C26_SaveLoadRoundTrip ==
    LET loaded == LoadGraphOf(SaveGraphOf(store, G, DocumentIdMap))
    IN  /\ DOMAIN loaded.nodes = DOMAIN nodes
        /\ \A id \in DOMAIN nodes : loaded.nodes[id] = nodes[id]
        /\ loaded.edges = edges

(***************************************************************************)
(* C27: get_actionable_now returns, sorted by (priority, title), one item   *)
(* for exactly the nodes of get_actionable_items that have no unfinished    *)
(* dependency, a completed or not_applicable dependency counting as         *)
(* finished; so every node of get_actionable_items has an item, and         *)
(* actionable_now of get_summary is the number of actionable nodes.         *)
(***************************************************************************)
C27_ActionableNow ==
    LET now == GetActionableNow(G)
        finished == {"COMPLETED", "NOT_APPLICABLE"}
        ready == {n \in GetActionableItems(G) :
                     \A d \in EdgeDependencies(G, n) : nodes[d].status \in finished}
    IN  /\ {now[i].node_id : i \in 1..Len(now)} = ready
        /\ Len(now) = Cardinality(ready)
        /\ \A i \in 1..Len(now), j \in 1..Len(now) : i < j => KeyAtMost(now[i], now[j])
        /\ ready = GetActionableItems(G)
        /\ SummaryActionableNow(G) = Cardinality(GetActionableItems(G))

(***************************************************************************)
(* C29: an edge may be added before its endpoint exists.  While an endpoint *)
(* of a dependency edge is missing, neither get_dependencies nor            *)
(* get_dependents shows the edge: its target is not among the dependencies  *)
(* of its source and its source is not among the dependents of its target.  *)
(* Once add_node has added the missing endpoint, both queries show it.      *)
(***************************************************************************)
C29_DanglingEdgeInvisible ==
    \A i \in DependencyEdges(G) :
        LET e == edges[i]
            missing == {e.source_id, e.target_id} \ DOMAIN nodes
        IN  /\ missing # {}
                => /\ e.target_id \notin Range(GetDependencies(G, e.source_id))
                   /\ e.source_id \notin Range(GetDependents(G, e.target_id))
            /\ \A m \in missing :
                   LET g1 == AddNodeTo(G, m, PlainNode("NOT_STARTED"))
                   IN  {e.source_id, e.target_id} \subseteq DOMAIN g1.nodes
                           => /\ e.target_id \in Range(GetDependencies(g1, e.source_id))
                              /\ e.source_id \in Range(GetDependents(g1, e.target_id))

(***************************************************************************)
(* C30: every edge that extract creates has type requires or                *)
(* conditional_on, a source different from its target, and both endpoints   *)
(* in the graph; a requires_item or conditional_on_item that matches no     *)
(* title of the response and no node of the graph yields no edge and no     *)
(* error: extract creates at most one edge of a type per item whose         *)
(* reference of that type matches something.  Stated of the edges of the    *)
(* graph, which extract made, and of the next call of extract.              *)
(***************************************************************************)
ExtractedEdge(g, e) ==
    /\ e.type \in {"REQUIRES", "CONDITIONAL_ON"}
    /\ e.source_id # e.target_id
    /\ e.source_id \in DOMAIN g.nodes /\ e.target_id \in DOMAIN g.nodes

\* The reference names something: its stripped, lowered text is part of
\* the title or the description of a node of g.
Matches(g, reference) ==
    /\ Truthy(reference) /\ Strip(reference) # ""
    /\ \E id \in DOMAIN g.nodes :
           \/ SubstringOf(Lower(Strip(reference)), Lower(Title(g.nodes[id])))
           \/ SubstringOf(Lower(Strip(reference)), Lower(Description(g.nodes[id])))

C30_ExtractEdges ==
    /\ \A i \in 1..Len(edges) : ExtractedEdge(G, edges[i])
    /\ Cardinality(LaterIds(G, ResolveNodeIds)) >= 2
           => \A sc \in ReferenceScripts :
                  LET call == ExtractOf(G, TwoDocuments[1], sc, ResolveNodeIds)
                      g1 == call.graph
                      items == sc[1].items
                      new == {i \in 1..Len(g1.edges) : i > Len(edges)}
                      made(type) == Cardinality({i \in new : g1.edges[i].type = type})
                  IN  /\ call.result.error = NoneVal /\ ~call.result.raised
                      /\ \A i \in new : ExtractedEdge(g1, g1.edges[i])
                      /\ made("REQUIRES") <=
                             Cardinality({k \in 1..Len(items) : Matches(g1, items[k].requires_item)})
                      /\ made("CONDITIONAL_ON") <=
                             Cardinality({k \in 1..Len(items) :
                                             Matches(g1, items[k].conditional_on_item)})

\* Two documents were read.  The first one gave an annex conditional on the
\* offer and an offer that requires " Anlage ": one edge each way.  The
\* second one gave an item that requires and is conditional on "Nachweis",
\* which nothing matches, and an offer that requires itself: no further edge.
C30_Witness ==
    /\ DOMAIN nodes = 1..4
    /\ extraction.result.error = NoneVal
    /\ extraction.script[1].items =
           <<Item("requirement", "Formblatt", "", "Nachweis", "Nachweis", FALSE),
             Item("requirement", "Angebot", "", "Angebot", "", FALSE)>>
    /\ nodes[1].title = "Anlage" /\ nodes[2].title = "Angebot"
    /\ edges = <<Edge(1, 2, "CONDITIONAL_ON"), Edge(2, 1, "REQUIRES")>>

(***************************************************************************)
(* C31: at any time at most one extraction worker is active per project:    *)
(* start_processing starts no second run_extraction while a job of the      *)
(* project is pending or running, so no two threads load, extract into and  *)
(* save the graph of the project at the same time.                          *)
(***************************************************************************)
ActiveJobs == {j \in DOMAIN jobs : jobs[j].pc # "done"}

C31_OneWorkerPerProject ==
    /\ Cardinality(ActiveJobs) <= 1
    /\ Cardinality({j \in DOMAIN jobs : jobs[j].status \in {"pending", "running"}}) <= 1

(***************************************************************************)
(* C32: whenever extract returns a result with an error (the document      *)
(* unreadable, the retries used up, a provider error that ends the call),   *)
(* the nodes, the edges and both indices are as before the call and the     *)
(* path of the document is not added to processed_documents.  Stated of     *)
(* the next call of extract, for every document and every client.           *)
(***************************************************************************)
C32_ErrorLeavesGraph ==
    \A d \in Documents, sc \in Scripts :
        LET call == ExtractOf(G, d, sc, NodeIds)
        IN  (~call.result.raised /\ call.result.error # NoneVal)
                => /\ call.graph = G
                   /\ call.result.nodes_created = {}
                   /\ d.path \notin call.processed

\* extract has just returned an error after three requests, on a graph to
\* which an earlier call had added a node.
C32_Witness ==
    /\ extraction.result.error # NoneVal
    /\ ~extraction.result.raised
    /\ extraction.result.requests = max_retries
    /\ nodes # EmptyMap
    /\ ExtractOf(G, extraction.document, extraction.script, NodeIds).graph = G

(***************************************************************************)
(* C33: IncrementalExtractor records the content hash of a document only    *)
(* when its extraction succeeded: after process_new_or_changed has          *)
(* processed a document and extract returned an error, the next call with   *)
(* the same content extracts the document again instead of skipping it.     *)
(***************************************************************************)
ErrorReturned ==
    /\ last.op = "process_new_or_changed" /\ last.ret = "processed"
    /\ extraction.result.error # NoneVal

C33_HashOnlyOnSuccess ==
    ErrorReturned
        => LET d == extraction.document
           IN  /\ ~(d.path \in DOMAIN document_hashes
                       /\ document_hashes[d.path] = HashContent(d.text))
               /\ \A sc \in SteadyScripts :
                      FreshIds(G, NodeIds) # {}
                          => ~ProcessNewOrChangedOf(G, document_hashes, d, HashContent(d.text),
                                                    sc, NodeIds).skipped

(***************************************************************************)
(* C34: reprocessing a changed document is all-or-nothing: when the         *)
(* extraction of a changed document returned an error, the nodes created    *)
(* from that document before are still in the graph after                   *)
(* process_new_or_changed has returned.                                     *)
(***************************************************************************)
C34_ReprocessAllOrNothing ==
    ErrorReturned => last.out \subseteq DOMAIN nodes

(***************************************************************************)
(* C35: incremental processing does not accumulate duplicates across        *)
(* sessions.  For a document that this session has processed and that is    *)
(* unchanged: when the project is created again over the saved graph and    *)
(* processes the document incrementally, no LLM request is issued and no    *)
(* source_document has more nodes than before.                              *)
(***************************************************************************)
C35_NoDuplicatesAcrossSessions ==
    \A d \in VersionedDocuments, sc \in SteadyScripts :
        (/\ FreshIds(G, NodeIds) # {}
         /\ d.path \in DOMAIN document_hashes
         /\ document_hashes[d.path] = HashContent(d.text))
            => LET session == NewSessionOf(G)
                   run == ProcessNewOrChangedOf(session.graph, session.document_hashes, d,
                                                HashContent(d.text), sc, NodeIds)
               IN  /\ run.result.requests = 0
                   /\ \A p \in {"doc1", "doc2"} :
                          Cardinality(GetNodesByDocument(run.graph, p))
                              <= Cardinality(GetNodesByDocument(G, p))

(***************************************************************************)
(* C36: every requires / conditional_on edge that extract creates has as    *)
(* its source the node created for the item that declares the reference,    *)
(* also when two items of the response have the same title up to letter     *)
(* case: the item of the source names, in the field of the edge's type, a   *)
(* text that the target's title contains.  Stated of the next call of       *)
(* extract; the k-th node created is the node of item k.                    *)
(***************************************************************************)
ReferenceOf(item, type) ==
    IF type = "REQUIRES" THEN item.requires_item ELSE item.conditional_on_item

C36_SourceIsDeclaringItem ==
    Cardinality(LaterIds(G, ResolveNodeIds)) >= 2
        => \A sc \in ReferenceScripts :
               LET g1 == ExtractOf(G, TwoDocuments[1], sc, ResolveNodeIds).graph
                   items == sc[1].items
                   created == Ascending(DOMAIN g1.nodes \ DOMAIN nodes)
               IN  \A i \in 1..Len(g1.edges) :
                       i > Len(edges)
                           => \E k \in 1..Len(items) :
                                  LET reference == ReferenceOf(items[k], g1.edges[i].type)
                                  IN  /\ g1.edges[i].source_id = created[k]
                                      /\ Truthy(reference) /\ Strip(reference) # ""
                                      /\ SubstringOf(Lower(Strip(reference)),
                                                     Lower(Title(g1.nodes[g1.edges[i].target_id])))

(***************************************************************************)
(* C37: merge_duplicate_nodes(keep, drop) with keep # drop never introduces *)
(* a self-dependency: when no edge has its source as its target before the  *)
(* merge, none has afterwards, and get_dependencies(keep) does not contain  *)
(* keep, also when a dependency edge connected keep and drop.               *)
(***************************************************************************)
SelfEdges(g) == {i \in 1..Len(g.edges) : g.edges[i].source_id = g.edges[i].target_id}

C37_MergeNoSelfDependency ==
    \A keep \in DOMAIN nodes, drop \in DOMAIN nodes :
        (keep # drop /\ ~MergeFaults(G, keep, drop) /\ SelfEdges(G) = {})
            => LET g1 == MergeDuplicateNodesOf(G, keep, drop)
               IN  /\ SelfEdges(g1) = {}
                   /\ keep \notin Range(GetDependencies(g1, keep))

(***************************************************************************)
(* C38: a blocked node does not stay blocked once all its dependencies are  *)
(* satisfied in the sense of get_actionable_items: after the                *)
(* update_status(d, completed) that completes its last unfinished           *)
(* dependency, a blocked node whose direct dependencies are all completed   *)
(* or not_applicable is not_started.                                        *)
(***************************************************************************)
C38_BlockedReleased ==
    \A d \in DOMAIN nodes :
        LET g1 == UpdateStatusOf(G, d, "COMPLETED")
            finished == {"COMPLETED", "NOT_APPLICABLE"}
        IN  nodes[d].status \notin finished
                => \A n \in EdgeDependents(G, d) \ {d} :
                       (/\ nodes[n].status = "BLOCKED"
                        /\ \A x \in EdgeDependencies(g1, n) : g1.nodes[x].status \in finished)
                           => g1.nodes[n].status = "NOT_STARTED"

(***************************************************************************)
(* C39: evaluate_conditions is reversible.  From a graph that               *)
(* evaluate_conditions leaves as it is: when the condition_met of a         *)
(* condition changes from not false to false and back to not false, with    *)
(* evaluate_conditions called after each change, every node conditional on  *)
(* the condition ends with the status it had before the first change.       *)
(***************************************************************************)
\* node.condition_met = value, for the condition node cond
SetConditionMet(g, cond, value) == [g EXCEPT !.nodes[cond].condition_met = value]

C39_EvaluateReversible ==
    \A cond \in DOMAIN nodes, back \in {"True", NoneVal} :
        (/\ nodes[cond].type = "CONDITION"
         /\ ConditionMet(nodes[cond]) # "False"
         /\ EvaluateConditions(G) = G)
            => LET g1 == EvaluateConditions(SetConditionMet(G, cond, "False"))
                   g2 == EvaluateConditions(SetConditionMet(g1, cond, back))
               IN  \A i \in 1..Len(edges) :
                       (/\ edges[i].type = "CONDITIONAL_ON"
                        /\ edges[i].target_id = cond
                        /\ HasNode(G, edges[i].source_id))
                           => g2.nodes[edges[i].source_id].status
                                  = nodes[edges[i].source_id].status

(***************************************************************************)
(* C40: get_summary reports critical_completed as the number of nodes whose *)
(* computed priority is CRITICAL and whose status is completed, and          *)
(* critical_items as the number of CRITICAL nodes the completed ones are     *)
(* counted against: the completed and the outstanding CRITICAL nodes.        *)
(***************************************************************************)
CriticalNodes(g) == {id \in DOMAIN g.nodes : DeterminePriority(g, id) = "CRITICAL"}

C40_SummaryCritical ==
    LET completed == {id \in CriticalNodes(G) : nodes[id].status = "COMPLETED"}
        counted == {id \in CriticalNodes(G) : nodes[id].status # "NOT_APPLICABLE"}
    IN  /\ SummaryCriticalCompleted(G) = Cardinality(completed)
        /\ SummaryCriticalItems(G) = Cardinality(counted)
====
